---- MODULE Spec2Model ----
(***************************************************************************)
(* Distributed FFT engines R2C and R2X of amrex::FFT                        *)
(* (Src/FFT/AMReX_FFT.cpp, the R2X header, AMReX_FFT_Poisson.H).            *)
(*                                                                         *)
(* Axes are numbered 1..3 here for the source's idim 0..2; cell indices     *)
(* are the source's zero-based (i,j,k).  A value is a pair <<re, im>>; a    *)
(* real array stores <<re, 0>>.  Junk is the content of storage that was    *)
(* never written or was overwritten through its alias.                      *)
(***************************************************************************)
EXTENDS Integers, Sequences, FiniteSets, TLC

VARIABLES
    engine,       \* the class constructed: "", "R2C", "R2X" or "PoissonHybrid"
    spacedim,     \* AMREX_SPACEDIM of the build
    domain,       \* m_real_domain (R2C) / m_dom_0 (R2X)
    m_info,       \* R2C::m_info
    m_bc,         \* R2X::m_bc
    nprocs,       \* ParallelContext::NProcsSub()
    status,       \* "unbuilt", "built", "aborted", "destroyed"
    abortAt,      \* the assertion or Abort that ended the program, "" if none
    mf,           \* the working arrays m_rx, m_ry, m_rz, m_cx, m_cy, m_cz
    m_cmd,        \* the MultiBlockCommMetaData objects that exist
    share,        \* the pairs of arrays that make_mfs_share put on one buffer
    plan,         \* per rank, the six Plan members
    op,           \* the member function all ranks are executing
    pc,           \* per rank, the statement of op to execute next
    log,          \* per rank, the transforms and copies executed by op
    calls,        \* the invocations of post_forward made by op
    inmf,         \* the caller's real input
    outmf,        \* the caller's real output
    spmf,         \* the caller's spectral array
    hist,         \* the member functions called so far, in order
    released,     \* per rank, the vendor plan handles the destructor released, in order
    m_geom,       \* the Geometry a PoissonHybrid solver was constructed from
    build,        \* the build a PoissonHybrid solver runs under: "cpu", "gpu" or "sycl"
                  \* (the build of an R2C or R2X engine shows in its plan handles)
    hip_pc,       \* hip_execute: the statement to execute next, 0 outside the function
    execinfo,     \* hip_execute: the local execinfo, 0 for nullptr
    buffersize,   \* hip_execute: the local buffersize
    buffer,       \* hip_execute: the local buffer, 0 before the allocation
    infos,        \* rocFFT: the execution infos that exist, with what is bound to each
    arena,        \* The_Arena(): the allocations that exist, with their sizes
    stream,       \* the GPU stream: the work buffer of every kernel queued on it, in
                  \* order, 0 for a kernel that uses none
    hip_trace,    \* hip_execute: the calls the current invocation has completed
    hip_done,     \* the invocations of hip_execute that have returned
    hip_abort     \* the call whose failure ended the program, "" if none

hipvars == << hip_pc, execinfo, buffersize, buffer, infos, arena, stream, hip_trace,
              hip_done, hip_abort >>

enginevars == << engine, spacedim, domain, m_info, m_bc, nprocs, status, abortAt, mf, m_cmd,
                 share, plan, op, pc, log, calls, inmf, outmf, spmf, hist,
                 released, m_geom, build >>

vars == << enginevars, hipvars >>

(***************************************************************************)
(* Bounds of the model                                                     *)
(***************************************************************************)
MaxProcs == 2          \* largest communicator size
MaxVal   == 1          \* input cells hold 0..MaxVal
MaxCalls == 2          \* member functions called on one engine

\* Axis lengths tried.  The kernels below are exact for lengths dividing 4,
\* whose roots of unity are 1, -1, i, -i.
Lengths0 == { 1, 4 }
Lengths1 == {1, 2}
Lengths2 == {1, 2}
SmallEnds == { <<0,0,0>>, <<1,0,0>>, <<0,0,1>> }

Min(a, b) == IF a < b THEN a ELSE b

(***************************************************************************)
(* Box, IntVect                                                            *)
(***************************************************************************)
Box(lo, hi) == [lo |-> lo, hi |-> hi]

length(b, d) == b.hi[d] - b.lo[d] + 1

bigEnd(b, d) == b.hi[d]

setBig(b, d, v) == [b EXCEPT !.hi[d] = v]

Cells(b) == { <<i, j, k>> : i \in b.lo[1]..b.hi[1], j \in b.lo[2]..b.hi[2],
                            k \in b.lo[3]..b.hi[3] }

\* the cells of all boxes of a box list
CellsOfBA(ba) == UNION { Cells(ba[n]) : n \in 1..Len(ba) }

numPts(b) == length(b, 1) * length(b, 2) * length(b, 3)

(***************************************************************************)
(* Index transforms (destination index -> source index)                    *)
(***************************************************************************)
Identity(c) == c

Swap01(c) == << c[2], c[1], c[3] >>

Swap02(c) == << c[3], c[2], c[1] >>

RotateFwd(c) == << c[2], c[3], c[1] >>

RotateBwd(c) == << c[3], c[1], c[2] >>

Dtos(name, c) ==
    CASE name = "Swap01"    -> Swap01(c)
      [] name = "Swap02"    -> Swap02(c)
      [] name = "RotateFwd" -> RotateFwd(c)
      [] name = "RotateBwd" -> RotateBwd(c)
      [] OTHER              -> Identity(c)

(***************************************************************************)
(* decompose, make_iota_distromap                                          *)
(***************************************************************************)
\* piece p (0-based) of k balanced pieces of lo..hi
Piece(lo, hi, k, p) ==
    LET L == hi - lo + 1
    IN  << lo + (p * L) \div k, lo + ((p + 1) * L) \div k - 1 >>

\* Splits only the axes whose flag is TRUE, the highest axis first, into at
\* most n boxes.
decompose(b, n, flags) ==
    LET k3 == IF flags[3] THEN Min(n, length(b, 3)) ELSE 1
        k2 == IF flags[2] THEN Min(n \div k3, length(b, 2)) ELSE 1
        k1 == IF flags[1] THEN Min(n \div (k3 * k2), length(b, 1)) ELSE 1
        part(m) ==
            LET p1 == m % k1
                p2 == (m \div k1) % k2
                p3 == m \div (k1 * k2)
                x == Piece(b.lo[1], b.hi[1], k1, p1)
                y == Piece(b.lo[2], b.hi[2], k2, p2)
                z == Piece(b.lo[3], b.hi[3], k3, p3)
            IN  Box(<< x[1], y[1], z[1] >>, << x[2], y[2], z[2] >>)
    IN  [ m \in 1..(k1 * k2 * k3) |-> part(m - 1) ]

\* a rank map that places every box on rank 0
make_iota_distromap_zero(n) == [ i \in 1..n |-> 0 ]

\* box i lives on rank i (ranks are 0-based, sequences 1-based)
make_iota_distromap(n) == [ i \in 1..n |-> i - 1 ]

(***************************************************************************)
(* Values                                                                  *)
(***************************************************************************)
Junk == << >>          \* storage never written, or overwritten through an alias

Opaque == << 0 >>      \* a defined number whose value the model does not track

IsNum(v) == Len(v) = 2

CAdd(a, b) ==
    IF a = Junk \/ b = Junk THEN Junk
    ELSE IF a = Opaque \/ b = Opaque THEN Opaque
    ELSE << a[1] + b[1], a[2] + b[2] >>

CMul(a, b) ==
    IF a = Junk \/ b = Junk THEN Junk
    ELSE IF a = Opaque \/ b = Opaque THEN Opaque
    ELSE << a[1] * b[1] - a[2] * b[2], a[1] * b[2] + a[2] * b[1] >>

Conj(a) == IF IsNum(a) THEN << a[1], 0 - a[2] >> ELSE a

Re(a) == IF IsNum(a) THEN << a[1], 0 >> ELSE a

Scale(n, a) == IF IsNum(a) THEN << n * a[1], n * a[2] >> ELSE a

\* exp(-2 pi i e / 4)
W4(e) ==
    CASE e = 0 -> << 1, 0 >>
      [] e = 1 -> << 0, -1 >>
      [] e = 2 -> << -1, 0 >>
      [] e = 3 -> << 0, 1 >>

\* exp(-2 pi i e / N) for "forward", exp(+2 pi i e / N) for "backward"
Root(N, e, dir) ==
    LET q == (e * (4 \div N)) % 4
    IN  IF dir = "forward" THEN W4(q) ELSE W4((4 - q) % 4)

RECURSIVE CSum(_, _)
CSum(f, n) == IF n < 0 THEN << 0, 0 >> ELSE CAdd(CSum(f, n - 1), f[n])

(***************************************************************************)
(* Vendor kernels along the first stored axis of a box                      *)
(***************************************************************************)
\* r2c forward: C[k] = sum_n R[n] exp(-2 pi i k n / N), k in 0..N/2
r2c_forward(src, N, c) ==
    CSum([ n \in 0..(N - 1) |->
             CMul(Re(src[<< n, c[2], c[3] >>]), Root(N, c[1] * n, "forward")) ],
         N - 1)

\* r2c backward (c2r): R[n] = sum_k C~[k] exp(+2 pi i k n / N), C~ the
\* conjugate-symmetric extension of C
r2c_backward(src, N, c) ==
    Re(CSum([ k \in 0..(N - 1) |->
                CMul(IF k <= N \div 2 THEN src[<< k, c[2], c[3] >>]
                     ELSE Conj(src[<< N - k, c[2], c[3] >>]),
                     Root(N, k * c[1], "backward")) ],
            N - 1))

\* c2c in direction dir, unnormalised
c2c(src, N, dir, c) ==
    CSum([ n \in 0..(N - 1) |->
             CMul(src[<< n, c[2], c[3] >>], Root(N, c[1] * n, dir)) ],
         N - 1)

\* r2r (DCT/DST): the values are not tracked
r2r(src, N, c) ==
    IF \E n \in 0..(N - 1) : src[<< n, c[2], c[3] >>] = Junk THEN Junk ELSE Opaque

(***************************************************************************)
(* FabArray                                                                *)
(***************************************************************************)
ArrNames == { "rx", "ry", "rz", "cx", "cy", "cz" }

EmptyFA == [ ba |-> << >>, dm |-> << >>, val |-> << >> ]

\* FabArray::define with SetAlloc(false): layout only, storage unwritten
define(ba, dm) == [ ba |-> ba, dm |-> dm, val |-> [ c \in CellsOfBA(ba) |-> Junk ] ]

empty(fa) == Len(fa.ba) = 0

size(fa) == Len(fa.ba)

Alias(a, b) == a # b /\ { a, b } \in share

\* writing array a on the ranks rs overwrites what its alias partner holds there
Clobber(m, a, rs) ==
    [ b \in ArrNames |->
        IF Alias(a, b)
        THEN [ m[b] EXCEPT !.val =
                 [ c \in DOMAIN m[b].val |->
                     IF \E r \in rs : /\ r < size(m[a])
                                     /\ r < size(m[b])
                                     /\ c \in Cells(m[b].ba[r + 1])
                     THEN Junk ELSE m[b].val[c] ] ]
        ELSE m[b] ]

(***************************************************************************)
(* Plan                                                                    *)
(***************************************************************************)
PlanNames == { "fwd_x", "bwd_x", "fwd_y", "bwd_y", "fwd_z", "bwd_z" }

\* a default-constructed Plan: not defined, null handle
NoPlan == [ defined |-> FALSE, kind |-> "", dir |-> "", box |-> Box(<<0,0,0>>, <<0,0,0>>),
            src |-> "", dst |-> "", handle |-> "" ]

init_r2c(dir, box, real, cplx, h) ==
    [ defined |-> TRUE, kind |-> "r2c", dir |-> dir, box |-> box,
      src |-> IF dir = "forward" THEN real ELSE cplx,
      dst |-> IF dir = "forward" THEN cplx ELSE real, handle |-> h ]

init_c2c(dir, box, a, h) ==
    [ defined |-> TRUE, kind |-> "c2c", dir |-> dir, box |-> box,
      src |-> a, dst |-> a, handle |-> h ]

init_r2r(dir, box, a, h) ==
    [ defined |-> TRUE, kind |-> "r2r", dir |-> dir, box |-> box,
      src |-> a, dst |-> a, handle |-> h ]

NoPlans == [ n \in PlanNames |-> NoPlan ]

\* detail::get_fab: the index of the local box, 0 when the rank owns none
get_fab(fa, myproc) == IF myproc < size(fa) THEN myproc + 1 ELSE 0

(***************************************************************************)
(* R2C::R2C                                                                *)
(***************************************************************************)
m_spectral_domain_x(dom) ==
    Box(<<0,0,0>>, << length(dom, 1) \div 2, bigEnd(dom, 2), bigEnd(dom, 3) >>)

m_spectral_domain_y(dom) ==
    Box(<<0,0,0>>, << bigEnd(dom, 2), length(dom, 1) \div 2, bigEnd(dom, 3) >>)

m_spectral_domain_z(dom) ==
    Box(<<0,0,0>>, << bigEnd(dom, 3), length(dom, 1) \div 2, bigEnd(dom, 2) >>)

\* R2C_asserts without the test of the length along x
R2C_asserts_nolength(sd, dom, info) ==
    IF ~ (dom.lo = <<0,0,0>> /\ dom.cc)
    THEN "assert_domain"
    ELSE IF sd = 3 /\ ~ (length(dom, 3) > 1 \/ ~ info.batch_mode)
    THEN "assert_batch"
    ELSE IF sd = 3 /\ ~ (length(dom, 2) > 1 \/ length(dom, 3) = 1)
    THEN "assert_y"
    ELSE IF sd < 3 /\ info.batch_mode
    THEN "assert_batch"
    ELSE ""

\* The assertions at the head of the constructor, in order; "" when all hold.
R2C_asserts(sd, dom, info) ==
    IF ~ (dom.lo = <<0,0,0>> /\ length(dom, 1) > 1 /\ dom.cc)
    THEN "assert_domain"
    ELSE IF sd = 3 /\ ~ (length(dom, 3) > 1 \/ ~ info.batch_mode)
    THEN "assert_batch"
    ELSE IF sd = 3 /\ ~ (length(dom, 2) > 1 \/ length(dom, 3) = 1)
    THEN "assert_y"
    ELSE IF sd < 3 /\ info.batch_mode
    THEN "assert_batch"
    ELSE ""

\* "make data containers": the four FabArrays
R2C_containers(sd, dom, info, np) ==
    LET bax  == decompose(dom, np, << FALSE, TRUE, TRUE >>)
        dmx  == make_iota_distromap(Len(bax))
        cbax == [ n \in 1..Len(bax) |->
                    setBig(bax[n], 1, bigEnd(m_spectral_domain_x(dom), 1)) ]
        cbay == decompose(m_spectral_domain_y(dom), np, << FALSE, TRUE, TRUE >>)
        cdmy == IF Len(cbay) = Len(dmx) THEN dmx ELSE make_iota_distromap(Len(cbay))
        hasy == sd >= 2 /\ length(dom, 2) > 1
        cbaz == decompose(m_spectral_domain_z(dom), np, << FALSE, TRUE, TRUE >>)
        cdmz == IF Len(cbaz) = Len(dmx) THEN dmx
                ELSE IF hasy /\ Len(cbaz) = Len(cdmy) THEN cdmy
                ELSE make_iota_distromap(Len(cbaz))
        hasz == sd = 3 /\ length(dom, 2) > 1
                       /\ (~ info.batch_mode /\ length(dom, 3) > 1)
    IN  [ a \in ArrNames |->
            CASE a = "rx" -> define(bax, dmx)
              [] a = "cx" -> define(cbax, dmx)
              [] a = "cy" -> IF hasy THEN define(cbay, cdmy) ELSE EmptyFA
              [] a = "cz" -> IF hasz THEN define(cbaz, cdmz) ELSE EmptyFA
              [] OTHER    -> EmptyFA ]

\* a sharing that puts rx and cx, and cy and cz, on the same buffers
R2C_share_rxcx == { { "rx", "cx" }, { "cy", "cz" } }

\* make_mfs_share(m_rx, m_cy), make_mfs_share(m_cx, m_cz)
R2C_share == { { "rx", "cy" }, { "cx", "cz" } }

\* R2C_copiers that builds the y <-> z pair without looking at m_cz
R2C_copiers_unguarded(sd, m) ==
    (IF sd >= 2 /\ ~ empty(m["cy"]) THEN { "x2y", "y2x" } ELSE { })
    \cup (IF sd = 3 THEN { "y2z", "z2y" } ELSE { })

\* "make copiers"
R2C_copiers(sd, m) ==
    (IF sd >= 2 /\ ~ empty(m["cy"]) THEN { "x2y", "y2x" } ELSE { })
    \cup (IF sd = 3 /\ ~ empty(m["cz"]) THEN { "y2z", "z2y" } ELSE { })

\* R2C::make_c2c_plans on rank myproc for axis ax
make_c2c_plans(m, a, ax, myproc) ==
    LET fab == get_fab(m[a], myproc)
    IN  IF fab = 0 THEN << NoPlan, NoPlan >>
        ELSE << init_c2c("forward", m[a].ba[fab], a, "fwd_" \o ax),
                init_c2c("backward", m[a].ba[fab], a, "bwd_" \o ax) >>

\* "make plans" on rank myproc
R2C_plans(sd, m, myproc) ==
    LET py == IF sd >= 2 /\ ~ empty(m["cy"])
              THEN make_c2c_plans(m, "cy", "y", myproc) ELSE << NoPlan, NoPlan >>
        pz == IF sd = 3 /\ ~ empty(m["cz"])
              THEN make_c2c_plans(m, "cz", "z", myproc) ELSE << NoPlan, NoPlan >>
        hasx == myproc < size(m["rx"])
    IN  [ n \in PlanNames |->
            CASE n = "fwd_x" -> IF hasx
                                THEN init_r2c("forward", m["rx"].ba[myproc + 1], "rx", "cx", "fwd_x")
                                ELSE NoPlan
              [] n = "bwd_x" -> IF hasx
                                THEN init_r2c("backward", m["rx"].ba[myproc + 1], "rx", "cx", "bwd_x")
                                ELSE NoPlan
              [] n = "fwd_y" -> py[1]
              [] n = "bwd_y" -> py[2]
              [] n = "fwd_z" -> pz[1]
              [] n = "bwd_z" -> pz[2] ]

\* the builds of the library: FFTW on the host, cuFFT or rocFFT (AMREX_USE_GPU),
\* oneMKL (AMREX_USE_SYCL, which is a GPU build too)
Backends == { "cpu", "gpu", "sycl" }

\* the builds an R2C engine on np ranks is constructed under: the GPU builds are
\* paired with the single-rank communicator
R2C_Builds(np) == IF np = 1 THEN Backends ELSE { "cpu" }

\* the builds an R2X engine on np ranks is constructed under, paired likewise
R2X_Builds(np) == IF np = 1 THEN Backends ELSE { "cpu" }

\* m_fft_bwd = m_fft_fwd: the backward plan holds the vendor handle of the forward
\* plan; the direction recorded is the one the plan is invoked with
SamePlan(fwd, bwd) == IF fwd.defined THEN [ bwd EXCEPT !.handle = fwd.handle ] ELSE bwd

\* "make plans" of R2C on rank myproc under a build: with SYCL every backward
\* plan is a copy of the forward plan
R2C_plans_on(backend, sd, m, myproc) ==
    LET p == R2C_plans(sd, m, myproc)
    IN  IF backend = "sycl"
        THEN [ n \in PlanNames |->
                 CASE n = "bwd_x" -> SamePlan(p["fwd_x"], p["bwd_x"])
                   [] n = "bwd_y" -> SamePlan(p["fwd_y"], p["bwd_y"])
                   [] n = "bwd_z" -> SamePlan(p["fwd_z"], p["bwd_z"])
                   [] OTHER -> p[n] ]
        ELSE p

\* Plan::destroy: the vendor handles it releases
Plan_destroy(p) == IF p.defined THEN << p.handle >> ELSE << >>

\* a destructor that destroys every backward plan without comparing handles
R2C_destructor_always(pl) ==
    Plan_destroy(pl["bwd_x"]) \o Plan_destroy(pl["bwd_y"]) \o Plan_destroy(pl["bwd_z"])
    \o Plan_destroy(pl["fwd_x"]) \o Plan_destroy(pl["fwd_y"]) \o Plan_destroy(pl["fwd_z"])

\* R2C::~R2C: the vendor handles released, in order
R2C_destructor(pl) ==
    (IF pl["bwd_x"].handle # pl["fwd_x"].handle THEN Plan_destroy(pl["bwd_x"]) ELSE << >>)
    \o (IF pl["bwd_y"].handle # pl["fwd_y"].handle THEN Plan_destroy(pl["bwd_y"]) ELSE << >>)
    \o (IF pl["bwd_z"].handle # pl["fwd_z"].handle THEN Plan_destroy(pl["bwd_z"]) ELSE << >>)
    \o Plan_destroy(pl["fwd_x"]) \o Plan_destroy(pl["fwd_y"]) \o Plan_destroy(pl["fwd_z"])

(***************************************************************************)
(* R2X::R2X                                                                *)
(***************************************************************************)
Boundaries == { "periodic", "even", "odd" }

\* R2X_assert_axis that tests the endpoints with && in place of ||
R2X_assert_axis_and(dom, bc, d) ==
    IF ~ (length(dom, d) > 1) THEN "assert_length"
    ELSE IF (bc[d][1] = "periodic" /\ bc[d][2] = "periodic") /\ ~ (bc[d][1] = bc[d][2])
    THEN "assert_bc"
    ELSE ""

\* the assertions of one pass of the loop over idim (d = idim + 1)
R2X_assert_axis(dom, bc, d) ==
    IF ~ (length(dom, d) > 1) THEN "assert_length"
    ELSE IF (bc[d][1] = "periodic" \/ bc[d][2] = "periodic") /\ ~ (bc[d][1] = bc[d][2])
    THEN "assert_bc"
    ELSE ""

\* The assertions at the head of the constructor, in order; "" when all hold.
R2X_asserts(sd, dom, bc) ==
    IF ~ (dom.lo = <<0,0,0>> /\ length(dom, 1) > 1 /\ dom.cc)
    THEN "assert_domain"
    ELSE IF sd = 3 /\ ~ (length(dom, 2) > 1 \/ length(dom, 3) = 1)
    THEN "assert_y"
    ELSE IF R2X_assert_axis(dom, bc, 1) # "" THEN R2X_assert_axis(dom, bc, 1)
    ELSE IF sd >= 2 /\ R2X_assert_axis(dom, bc, 2) # "" THEN R2X_assert_axis(dom, bc, 2)
    ELSE IF sd = 3 /\ R2X_assert_axis(dom, bc, 3) # "" THEN R2X_assert_axis(dom, bc, 3)
    ELSE ""

\* m_dom_rx, m_dom_cx, m_dom_ry, m_dom_cy, m_dom_rz, m_dom_cz; NoDom when the
\* constructor leaves the member default-constructed
NoDom == Box(<<0,0,0>>, <<-1,-1,-1>>)

\* m_dom_cx
R2X_dom_cx(dom, bc) ==
    IF bc[1][1] = "periodic"
    THEN Box(<<0,0,0>>, << length(dom, 1) \div 2, bigEnd(dom, 2), bigEnd(dom, 3) >>)
    ELSE NoDom

\* m_dom_ry, from m_dom_rx = dom
R2X_dom_ry(sd, dom, bc) ==
    IF sd >= 2 /\ length(dom, 2) > 1 /\ bc[1][1] # "periodic"
    THEN Box(<<0,0,0>>, << bigEnd(dom, 2), bigEnd(dom, 1), bigEnd(dom, 3) >>)
    ELSE NoDom

\* m_dom_cy, from m_dom_cx when m_cx exists, else from m_dom_ry
R2X_dom_cy(sd, dom, bc, cx, ry) ==
    IF ~ (sd >= 2 /\ length(dom, 2) > 1) THEN NoDom
    ELSE IF cx # NoDom
    THEN Box(<<0,0,0>>, << bigEnd(cx, 2), bigEnd(cx, 1), bigEnd(cx, 3) >>)
    ELSE IF bc[2][1] = "periodic"
    THEN Box(<<0,0,0>>, << length(ry, 1) \div 2, bigEnd(ry, 2), bigEnd(ry, 3) >>)
    ELSE NoDom

\* m_dom_rz, from m_dom_ry when m_cy does not exist
R2X_dom_rz(sd, dom, cy, ry) ==
    IF sd = 3 /\ length(dom, 3) > 1 /\ cy = NoDom
    THEN Box(<<0,0,0>>, << bigEnd(ry, 3), bigEnd(ry, 2), bigEnd(ry, 1) >>)
    ELSE NoDom

\* m_dom_cz, from m_dom_cy when m_cy exists, else from m_dom_rz
R2X_dom_cz(sd, dom, bc, cy, rz) ==
    IF ~ (sd = 3 /\ length(dom, 3) > 1) THEN NoDom
    ELSE IF cy # NoDom
    THEN Box(<<0,0,0>>, << bigEnd(cy, 3), bigEnd(cy, 2), bigEnd(cy, 1) >>)
    ELSE IF bc[3][1] = "periodic"
    THEN Box(<<0,0,0>>, << length(rz, 1) \div 2, bigEnd(rz, 2), bigEnd(rz, 3) >>)
    ELSE NoDom

R2X_doms(sd, dom, bc) ==
    LET cx == R2X_dom_cx(dom, bc)
        ry == R2X_dom_ry(sd, dom, bc)
        cy == R2X_dom_cy(sd, dom, bc, cx, ry)
        rz == R2X_dom_rz(sd, dom, cy, ry)
        cz == R2X_dom_cz(sd, dom, bc, cy, rz)
    IN  [ rx |-> Box(dom.lo, dom.hi), cx |-> cx, ry |-> ry, cy |-> cy, rz |-> rz, cz |-> cz ]

\* the box list of a real array with every box cut to the half spectrum
HalfBoxes(ba, big) == [ n \in 1..Len(ba) |-> setBig(ba[n], 1, big) ]

\* the distribution map of a new array of n boxes, reusing that of prev
ReuseDM(n, prev) == IF n = size(prev) THEN prev.dm ELSE make_iota_distromap(n)

\* the pieces a domain is cut into: y and z may be split, x never
R2X_decompose(b, np) == decompose(b, np, << FALSE, TRUE, TRUE >>)

\* m_cx.define(cbax, dmx)
R2X_define_cx(d, bax, rx) ==
    IF d.cx # NoDom THEN define(HalfBoxes(bax, bigEnd(d.cx, 1)), rx.dm) ELSE EmptyFA

\* m_ry.define(ba, dm)
R2X_define_ry(d, bay, rx) ==
    IF d.ry # NoDom THEN define(bay, ReuseDM(Len(bay), rx)) ELSE EmptyFA

\* m_cy.define(ba, dm) after m_cx, or m_cy.define(cba, dm) after m_ry
R2X_define_cy(d, bay, cx, ry) ==
    IF d.cy = NoDom THEN EmptyFA
    ELSE IF ~ empty(cx) THEN define(bay, ReuseDM(Len(bay), cx))
    ELSE define(HalfBoxes(bay, bigEnd(d.cy, 1)), ry.dm)

\* m_rz.define(ba, dm)
R2X_define_rz(d, baz, ry) ==
    IF d.rz # NoDom THEN define(baz, ReuseDM(Len(baz), ry)) ELSE EmptyFA

\* m_cz.define(ba, dm) after m_cy, or m_cz.define(cba, dm) after m_rz
R2X_define_cz(d, baz, cy, rz) ==
    IF d.cz = NoDom THEN EmptyFA
    ELSE IF ~ empty(cy) THEN define(baz, ReuseDM(Len(baz), cy))
    ELSE define(HalfBoxes(baz, bigEnd(d.cz, 1)), rz.dm)

\* the six arrays for the domains d
R2X_arrays(d, np) ==
    LET bax == R2X_decompose(d.rx, np)
        rx  == define(bax, make_iota_distromap(Len(bax)))
        cx  == R2X_define_cx(d, bax, rx)
        bay == R2X_decompose(IF d.ry # NoDom THEN d.ry ELSE d.cy, np)
        ry  == R2X_define_ry(d, bay, rx)
        cy  == R2X_define_cy(d, bay, cx, ry)
        baz == R2X_decompose(IF d.rz # NoDom THEN d.rz ELSE d.cz, np)
        rz  == R2X_define_rz(d, baz, ry)
        cz  == R2X_define_cz(d, baz, cy, rz)
    IN  [ a \in ArrNames |->
            CASE a = "rx" -> rx [] a = "ry" -> ry [] a = "rz" -> rz
              [] a = "cx" -> cx [] a = "cy" -> cy [] a = "cz" -> cz ]

\* "make data containers"
R2X_containers(sd, dom, bc, np) == R2X_arrays(R2X_doms(sd, dom, bc), np)

\* a sharing that pairs (rx, cy) and (cx, cz) whatever arrays the engine has
R2X_share_first(m) == { { "rx", "cy" }, { "cx", "cz" } }

\* the four make_mfs_share calls
R2X_share(m) ==
    IF ~ empty(m["cx"]) THEN { { "rx", "cy" }, { "cx", "cz" } }
    ELSE IF ~ empty(m["cy"]) THEN { { "rx", "cy" }, { "ry", "cz" } }
    ELSE IF ~ empty(m["cz"]) THEN { { "rx", "rz" }, { "ry", "cz" } }
    ELSE { { "rx", "rz" }, { "ry", "cz" } }

\* copiers that are made only when the first array is spread over several ranks
R2X_copiers_split(sd, dom, m) ==
    IF size(m["rx"]) > 1
    THEN (IF sd >= 2 /\ length(dom, 2) > 1
          THEN IF ~ empty(m["cx"]) THEN { "cx2cy", "cy2cx" } ELSE { "rx2ry", "ry2rx" }
          ELSE { })
         \cup
         (IF sd = 3 /\ length(dom, 3) > 1
          THEN IF ~ empty(m["cy"]) THEN { "cy2cz", "cz2cy" } ELSE { "ry2rz", "rz2ry" }
          ELSE { })
    ELSE { }

\* "make copiers"
R2X_copiers(sd, dom, m) ==
    (IF sd >= 2 /\ length(dom, 2) > 1
     THEN IF ~ empty(m["cx"]) THEN { "cx2cy", "cy2cx" } ELSE { "rx2ry", "ry2rx" }
     ELSE { })
    \cup
    (IF sd = 3 /\ length(dom, 3) > 1
     THEN IF ~ empty(m["cy"]) THEN { "cy2cz", "cz2cy" } ELSE { "ry2rz", "rz2ry" }
     ELSE { })

\* the forward and backward plan of one axis that works in place on array a
InPlacePair(kind, m, a, ax, myproc) ==
    IF myproc < size(m[a])
    THEN IF kind = "c2c"
         THEN << init_c2c("forward", m[a].ba[myproc + 1], a, "fwd_" \o ax),
                 init_c2c("backward", m[a].ba[myproc + 1], a, "bwd_" \o ax) >>
         ELSE << init_r2r("forward", m[a].ba[myproc + 1], a, "fwd_" \o ax),
                 init_r2r("backward", m[a].ba[myproc + 1], a, "bwd_" \o ax) >>
    ELSE << NoPlan, NoPlan >>

\* the r2c plan pair of one axis, from real array re to complex array cp
R2CPair(m, re, cp, ax, myproc) ==
    IF myproc < size(m[re])
    THEN << init_r2c("forward", m[re].ba[myproc + 1], re, cp, "fwd_" \o ax),
            init_r2c("backward", m[re].ba[myproc + 1], re, cp, "bwd_" \o ax) >>
    ELSE << NoPlan, NoPlan >>

\* "make plans" on rank myproc
R2X_plans(sd, bc, m, myproc) ==
    LET px == IF bc[1][1] = "periodic"
              THEN R2CPair(m, "rx", "cx", "x", myproc)
              ELSE InPlacePair("r2r", m, "rx", "x", myproc)
        py == IF sd < 2 THEN << NoPlan, NoPlan >>
              ELSE IF empty(m["ry"]) /\ bc[2][1] = "periodic"
              THEN InPlacePair("c2c", m, "cy", "y", myproc)
              ELSE IF ~ empty(m["ry"]) /\ bc[2][1] = "periodic"
              THEN R2CPair(m, "ry", "cy", "y", myproc)
              ELSE IF ~ empty(m["cy"])
              THEN InPlacePair("r2r", m, "cy", "y", myproc)
              ELSE InPlacePair("r2r", m, "ry", "y", myproc)
        pz == IF sd < 3 THEN << NoPlan, NoPlan >>
              ELSE IF empty(m["rz"]) /\ bc[3][1] = "periodic"
              THEN InPlacePair("c2c", m, "cz", "z", myproc)
              ELSE IF ~ empty(m["rz"]) /\ bc[3][1] = "periodic"
              THEN R2CPair(m, "rz", "cz", "z", myproc)
              ELSE IF ~ empty(m["cz"])
              THEN InPlacePair("r2r", m, "cz", "z", myproc)
              ELSE InPlacePair("r2r", m, "rz", "z", myproc)
    IN  [ n \in PlanNames |->
            CASE n = "fwd_x" -> px[1] [] n = "bwd_x" -> px[2]
              [] n = "fwd_y" -> py[1] [] n = "bwd_y" -> py[2]
              [] n = "fwd_z" -> pz[1] [] n = "bwd_z" -> pz[2] ]

\* the r2r plan of an axis is one plan for both directions on a GPU build when
\* its boundary pair is (even, odd) or (odd, even)
R2X_r2r_same(backend, b) ==
    backend \in { "gpu", "sycl" } /\ (b = << "even", "odd" >> \/ b = << "odd", "even" >>)

\* the backward plan of an axis under a build, given the forward plan
R2X_bwd_on(backend, b, fwd, bwd) ==
    IF \/ fwd.kind \in { "r2c", "c2c" } /\ backend = "sycl"
       \/ fwd.kind = "r2r" /\ R2X_r2r_same(backend, b)
    THEN SamePlan(fwd, bwd)
    ELSE bwd

\* "make plans" of R2X on rank myproc under a build
R2X_plans_on(backend, sd, bc, m, myproc) ==
    LET p == R2X_plans(sd, bc, m, myproc)
    IN  [ n \in PlanNames |->
            CASE n = "bwd_x" -> R2X_bwd_on(backend, bc[1], p["fwd_x"], p["bwd_x"])
              [] n = "bwd_y" -> R2X_bwd_on(backend, bc[2], p["fwd_y"], p["bwd_y"])
              [] n = "bwd_z" -> R2X_bwd_on(backend, bc[3], p["fwd_z"], p["bwd_z"])
              [] OTHER -> p[n] ]

\* R2X::~R2X: the vendor handles released, in order
R2X_destructor(pl) ==
    (IF pl["bwd_x"].handle # pl["fwd_x"].handle THEN Plan_destroy(pl["bwd_x"]) ELSE << >>)
    \o (IF pl["bwd_y"].handle # pl["fwd_y"].handle THEN Plan_destroy(pl["bwd_y"]) ELSE << >>)
    \o (IF pl["bwd_z"].handle # pl["fwd_z"].handle THEN Plan_destroy(pl["bwd_z"]) ELSE << >>)
    \o Plan_destroy(pl["fwd_x"]) \o Plan_destroy(pl["fwd_y"]) \o Plan_destroy(pl["fwd_z"])

(***************************************************************************)
(* Statements of the member functions                                      *)
(***************************************************************************)
NoBox == Box(<<0,0,0>>, <<0,0,0>>)

Stmt(t) == [ t |-> t, plan |-> "", kernel |-> "", dir |-> "", dst |-> "",
             src |-> "", cmd |-> "", dtos |-> "", mask |-> NoBox ]

\* m_fft_<plan>.compute_<kernel><dir>()
Compute(pl, kernel, dir) ==
    [ Stmt("compute") EXCEPT !.plan = pl, !.kernel = kernel, !.dir = dir ]

\* if (m_cmd_<cmd>) ParallelCopy(dst, src, *m_cmd_<cmd>, 0, 0, 1, dtos)
Copy(dst, src, cmd, dtos, mask) ==
    [ Stmt("copy") EXCEPT !.dst = dst, !.src = src, !.cmd = cmd, !.dtos = dtos,
                          !.mask = mask ]

\* forward with the x -> y redistribution issued before the transform along x
forward_reordered(dom) ==
    << Stmt("copy_in"),
       Copy("cy", "cx", "x2y", "Swap01", m_spectral_domain_y(dom)),
       Compute("fwd_x", "r2c", "forward"),
       Compute("fwd_y", "c2c", "forward"),
       Copy("cz", "cy", "y2z", "Swap02", m_spectral_domain_z(dom)),
       Compute("fwd_z", "c2c", "forward") >>

\* R2C::forward(MF const&)
forward(dom) ==
    << Stmt("copy_in"),
       Compute("fwd_x", "r2c", "forward"),
       Copy("cy", "cx", "x2y", "Swap01", m_spectral_domain_y(dom)),
       Compute("fwd_y", "c2c", "forward"),
       Copy("cz", "cy", "y2z", "Swap02", m_spectral_domain_z(dom)),
       Compute("fwd_z", "c2c", "forward") >>

\* backward_doit with the transform along y issued before the z -> y redistribution
backward_doit_reordered(dom) ==
    << Compute("bwd_z", "c2c", "backward"),
       Compute("bwd_y", "c2c", "backward"),
       Copy("cy", "cz", "z2y", "Swap02", m_spectral_domain_y(dom)),
       Copy("cx", "cy", "y2x", "Swap01", m_spectral_domain_x(dom)),
       Compute("bwd_x", "r2c", "backward"),
       Stmt("copy_out") >>

\* backward_doit that runs the forward plan along x in place of the backward one
backward_doit_fwdplan(dom) ==
    << Compute("bwd_z", "c2c", "backward"),
       Copy("cy", "cz", "z2y", "Swap02", m_spectral_domain_y(dom)),
       Compute("bwd_y", "c2c", "backward"),
       Copy("cx", "cy", "y2x", "Swap01", m_spectral_domain_x(dom)),
       Compute("fwd_x", "r2c", "forward"),
       Stmt("copy_out") >>

\* R2C::backward_doit
backward_doit(dom) ==
    << Compute("bwd_z", "c2c", "backward"),
       Copy("cy", "cz", "z2y", "Swap02", m_spectral_domain_y(dom)),
       Compute("bwd_y", "c2c", "backward"),
       Copy("cx", "cy", "y2x", "Swap01", m_spectral_domain_x(dom)),
       Compute("bwd_x", "r2c", "backward"),
       Stmt("copy_out") >>

\* forwardThenBackward with the callback run before the last forward transform
forwardThenBackward_early(dom) ==
    SubSeq(forward(dom), 1, 5) \o << Stmt("post_forward"), forward(dom)[6] >>
    \o backward_doit(dom)

\* R2C::forwardThenBackward
forwardThenBackward(dom) ==
    forward(dom) \o << Stmt("post_forward") >> \o backward_doit(dom)

\* R2C::forward(MF const&, cMF&)
forward_out(dom) == forward(dom) \o << Stmt("export") >>

\* R2C::backward(cMF const&, MF&)
backward_in(dom) == << Stmt("import") >> \o backward_doit(dom)

\* the kernel R2X::forwardThenBackward invokes on each axis
R2X_kernel_x(bc) == IF bc[1][1] = "periodic" THEN "r2c" ELSE "r2r"

\* a y dispatch that runs c2c on every periodic y axis
R2X_kernel_y_c2c(bc) == IF bc[2][1] # "periodic" THEN "r2r" ELSE "c2c"

R2X_kernel_y(bc) ==
    IF bc[2][1] # "periodic" THEN "r2r"
    ELSE IF bc[1][1] = "periodic" THEN "c2c" ELSE "r2c"

R2X_kernel_z(bc) ==
    IF bc[3][1] # "periodic" THEN "r2r"
    ELSE IF bc[1][1] = "periodic" \/ bc[2][1] = "periodic" THEN "c2c" ELSE "r2c"

\* if (m_cmd_<c1>) ParallelCopy(d1, s1, ...) else if (m_cmd_<c2>) ParallelCopy(d2, s2, ...)
Copy2(cmd, d1, s1, c1, d2, s2, c2, dtos, doms) ==
    IF c1 \in cmd THEN Copy(d1, s1, c1, dtos, doms[d1]) ELSE Copy(d2, s2, c2, dtos, doms[d2])

\* R2X::forwardThenBackward
R2X_forwardThenBackward(sd, bc, cmd, doms) ==
    << Stmt("copy_in"), Compute("fwd_x", R2X_kernel_x(bc), "forward") >>
    \o (IF sd >= 2
        THEN << Copy2(cmd, "cy", "cx", "cx2cy", "ry", "rx", "rx2ry", "Swap01", doms),
                Compute("fwd_y", R2X_kernel_y(bc), "forward") >>
        ELSE << >>)
    \o (IF sd = 3
        THEN << Copy2(cmd, "cz", "cy", "cy2cz", "rz", "ry", "ry2rz", "Swap02", doms),
                Compute("fwd_z", R2X_kernel_z(bc), "forward") >>
        ELSE << >>)
    \o << Stmt("r2x_post_forward") >>
    \o (IF sd = 3
        THEN << Compute("bwd_z", R2X_kernel_z(bc), "backward"),
                Copy2(cmd, "cy", "cz", "cz2cy", "ry", "rz", "rz2ry", "Swap02", doms) >>
        ELSE << >>)
    \o (IF sd >= 2
        THEN << Compute("bwd_y", R2X_kernel_y(bc), "backward"),
                Copy2(cmd, "cx", "cy", "cy2cx", "rx", "ry", "ry2rx", "Swap01", doms) >>
        ELSE << >>)
    \o << Compute("bwd_x", R2X_kernel_x(bc), "backward"), Stmt("copy_out") >>

\* actual_dim of R2X::forwardThenBackward
R2X_actual_dim(sd, dom) ==
    IF sd = 3 /\ length(dom, 3) = 1 /\ length(dom, 2) > 1 THEN 2
    ELSE IF sd >= 2 /\ length(dom, 2) = 1 THEN 1
    ELSE sd

\* the array handed to post_forward_doit<actual_dim - 1>
R2X_post_forward_array(ad, m) ==
    CASE ad = 1 -> IF empty(m["cx"]) THEN "rx" ELSE "cx"
      [] ad = 2 -> IF empty(m["cy"]) THEN "ry" ELSE "cy"
      [] ad = 3 -> IF empty(m["cz"]) THEN "rz" ELSE "cz"

\* scalingFactor that doubles for the periodic axes instead of the others
R2X_scalingFactor_periodic(sd, dom, bc) ==
    LET f(d) == IF d <= sd /\ bc[d][1] = "periodic" /\ length(dom, d) > 1 THEN 2 ELSE 1
    IN  << 1, numPts(dom) * f(1) * f(2) * f(3) >>

\* R2X::scalingFactor: T(1)/T(r) as the pair << 1, r >>
R2X_scalingFactor(sd, dom, bc) ==
    LET f(d) == IF d <= sd /\ bc[d][1] # "periodic" /\ length(dom, d) > 1 THEN 2 ELSE 1
    IN  << 1, numPts(dom) * f(1) * f(2) * f(3) >>

\* R2X::post_forward_doit<dim>(get_fab(a), f) on rank r: the invocations of f
R2X_post_forward_doit(dim, m, a, r) ==
    LET fab == get_fab(m[a], r)
    IN  IF fab = 0 THEN { }
        ELSE { [ rank |-> r,
                 idx |-> IF dim = 0 THEN c
                         ELSE IF dim = 1 THEN << c[2], c[1], c[3] >>
                         ELSE << c[2], c[3], c[1] >>,
                 arr |-> a, at |-> c ] : c \in Cells(m[a].ba[fab]) }

(***************************************************************************)
(* Poisson::solve                                                          *)
(***************************************************************************)
\* twice offset[idim]: 1 for (odd, odd), 0.5 for (odd, even) and (even, odd)
Poisson_offset2(b) ==
    IF b = << "odd", "odd" >> THEN 2
    ELSE IF b = << "odd", "even" >> \/ b = << "even", "odd" >> THEN 1
    ELSE 0

\* fac[d] * (i + offset[d]) in units of pi, as the fraction << n, m >>: fac[d]
\* is pi / length(d), doubled when the axis is periodic
Poisson_angle(dom, bc, d, i) ==
    << (IF bc[d][1] = "periodic" THEN 2 ELSE 1) * (2 * i + Poisson_offset2(bc[d])),
       2 * length(dom, d) >>

\* the sign of std::cos(a) - T(1) for a = (q[1] / q[2]) pi: zero exactly when a
\* is a multiple of 2 pi
CosMinusOne(q) == IF q[1] % (2 * q[2]) = 0 THEN 0 ELSE -1

\* the sign of k2 at index idx: the sum of dxfac[d] * (cos(a_d) - 1) over the
\* axes of the build, dxfac[d] = 2 / CellSize(d)^2 being positive
Poisson_k2(sd, dom, bc, idx) ==
    LET t(d) == IF d <= sd THEN CosMinusOne(Poisson_angle(dom, bc, d, idx[d])) ELSE 0
    IN  IF t(1) + t(2) + t(3) < 0 THEN -1 ELSE 0

\* a callback that divides by k2 whatever its value
Poisson_callback_unguarded(sd, dom, bc, idx) ==
    << [ op |-> "/=", by |-> << Poisson_k2(sd, dom, bc, idx), 1 >> ],
       [ op |-> "*=", by |-> R2X_scalingFactor(sd, dom, bc) ] >>

\* the callback Poisson::solve hands to forwardThenBackward, at index idx: the
\* operations it applies to spectral_data, in order, with their operands (the
\* divisor by its sign)
Poisson_callback(sd, dom, bc, idx) ==
    (IF Poisson_k2(sd, dom, bc, idx) # 0
     THEN << [ op |-> "/=", by |-> << Poisson_k2(sd, dom, bc, idx), 1 >> ] >>
     ELSE << >>)
    \o << [ op |-> "*=", by |-> R2X_scalingFactor(sd, dom, bc) ] >>

\* R2X::post_forward_doit<dim>(get_fab(a), f) on rank r with the callback of
\* Poisson::solve: every invocation with what the callback did to its cell
Poisson_post_forward(sd, dom, bc, dim, m, a, r) ==
    { [ rank |-> k.rank, idx |-> k.idx, arr |-> k.arr, at |-> k.at,
        did |-> Poisson_callback(sd, dom, bc, k.idx) ] :
      k \in R2X_post_forward_doit(dim, m, a, r) }

(***************************************************************************)
(* PoissonHybrid                                                           *)
(***************************************************************************)
\* what the solver reads of a Geometry besides its Domain: isPeriodic(d) and
\* CellSize(d)
NoGeometry == [ isPeriodic |-> << FALSE, FALSE, FALSE >>, CellSize |-> << 0, 0, 0 >> ]

\* the geometries a solver is constructed from: periodic in x and y or not, with
\* a unit or a zero cell size along z
Geometries ==
    { [ isPeriodic |-> pd, CellSize |-> << 1, 1, dz >> ] :
        pd \in { << TRUE, TRUE, FALSE >>, << TRUE, TRUE, TRUE >>, << TRUE, FALSE, FALSE >> },
        dz \in { 0, 1 } }

\* the body of PoissonHybrid::PoissonHybrid: "" when it passes, else what ends
\* the program
PoissonHybrid_asserts(sd, geom) ==
    IF sd = 3
    THEN IF geom.isPeriodic[1] /\ geom.isPeriodic[2] THEN "" ELSE "isPeriodic"
    ELSE "FFT::PoissonHybrid: 1D & 2D todo"

\* a layout of spmf that is split along z too
PoissonHybrid_cba_z(dom, np) ==
    decompose(Box(dom.lo, << length(dom, 1) \div 2, dom.hi[2], dom.hi[3] >>), np,
              << TRUE, TRUE, TRUE >>)

\* PoissonHybrid::solve: the layout cba of the intermediate spectral array spmf
PoissonHybrid_cba(dom, np) ==
    decompose(Box(dom.lo, << length(dom, 1) \div 2, dom.hi[2], dom.hi[3] >>), np,
              << TRUE, TRUE, FALSE >>)

\* delzv(nz, CellSize(2)): entry k of the source is entry k + 1 here
PoissonHybrid_delz(dom, geom) == [ k \in 1..length(dom, 3) |-> geom.CellSize[3] ]

\* 2.0 / (delz[k] * (delz[k] + delz[n])) as the fraction << 2, den >>, with
\* the indices of delz it reads; a read outside the table has no defined value
Coef(delz, k, n) ==
    [ val   |-> IF k + 1 \in DOMAIN delz /\ n + 1 \in DOMAIN delz
                THEN << 2, delz[k + 1] * (delz[k + 1] + delz[n + 1]) >>
                ELSE Junk,
      reads |-> { k, n } ]

\* the constant 0. stored as a coefficient
Zero == [ val |-> << 0, 1 >>, reads |-> { } ]

\* k2 of column (i, j) by the wave numbers its two angles are built from:
\* a = facx * i, b = facy * j when j < ny / 2 and facy * (ny - j) otherwise
PoissonHybrid_k2(i, j, ny) == << i, IF j < ny \div 2 THEN j ELSE ny - j >>

\* one row of the tridiagonal system: ald, cud, and bd = (k2 - ald - cud) times
\* the factor it was multiplied by, with the delz indices read
Row(ald, cud, k2, times) ==
    [ a |-> ald.val, c |-> cud.val,
      b |-> [ k2 |-> k2, minus |-> << ald.val, cud.val >>, times |-> times ],
      reads |-> ald.reads \cup cud.reads ]

\* a setup whose last row also reads the cell above it
PoissonHybrid_rows_gpu_next(i, j, ny, nz, delz) ==
    [ k \in 0..(nz - 1) |->
        IF k = 0
        THEN Row(Zero, Coef(delz, k, k + 1), PoissonHybrid_k2(i, j, ny), 1)
        ELSE IF k = nz - 1
        THEN Row(Coef(delz, k, k - 1), Coef(delz, k, k + 1), PoissonHybrid_k2(i, j, ny),
                 IF i = 0 /\ j = 0 THEN 2 ELSE 1)
        ELSE Row(Coef(delz, k, k - 1), Coef(delz, k, k + 1), PoissonHybrid_k2(i, j, ny), 1) ]

\* the tridiagonal setup of column (i, j) on a GPU build: ald(i,j,k), bd(i,j,k)
\* and cud(i,j,k) of the workspace, by k
PoissonHybrid_rows_gpu(i, j, ny, nz, delz) ==
    [ k \in 0..(nz - 1) |->
        IF k = 0
        THEN Row(Zero, Coef(delz, k, k + 1), PoissonHybrid_k2(i, j, ny), 1)
        ELSE IF k = nz - 1
        THEN Row(Coef(delz, k, k - 1), Zero, PoissonHybrid_k2(i, j, ny),
                 IF i = 0 /\ j = 0 THEN 2 ELSE 1)
        ELSE Row(Coef(delz, k, k - 1), Coef(delz, k, k + 1), PoissonHybrid_k2(i, j, ny), 1) ]

\* a setup that applies the gauge fix on the first row of column (0, 0)
PoissonHybrid_rows_cpu_first(i, j, ny, nz, delz) ==
    [ k \in 0..(nz - 1) |->
        IF k = 0
        THEN Row(Zero, Coef(delz, k, k + 1), PoissonHybrid_k2(i, j, ny),
                 IF i = 0 /\ j = 0 THEN 2 ELSE 1)
        ELSE IF k = nz - 1
        THEN Row(Coef(delz, k, k - 1), Zero, PoissonHybrid_k2(i, j, ny), 1)
        ELSE Row(Coef(delz, k, k - 1), Coef(delz, k, k + 1), PoissonHybrid_k2(i, j, ny), 1) ]

\* the tridiagonal setup of column (i, j) on a host build: ald[k], bd[k] and
\* cud[k], every entry written anew for the column
PoissonHybrid_rows_cpu(i, j, ny, nz, delz) ==
    [ k \in 0..(nz - 1) |->
        IF k = 0
        THEN Row(Zero, Coef(delz, k, k + 1), PoissonHybrid_k2(i, j, ny), 1)
        ELSE IF k = nz - 1
        THEN Row(Coef(delz, k, k - 1), Zero, PoissonHybrid_k2(i, j, ny),
                 IF i = 0 /\ j = 0 THEN 2 ELSE 1)
        ELSE Row(Coef(delz, k, k - 1), Coef(delz, k, k + 1), PoissonHybrid_k2(i, j, ny), 1) ]

\* the columns of box b: the (i, j) of the cells of makeSlab(b, 2, 0)
Columns(b) == { << c[1], c[2] >> : c \in Cells(b) }

\* the loop over the local boxes of spmf on rank r: for every column of the
\* box the rows it builds, the rows of spectral it solves and the rows it
\* multiplies by scale = 1 / (N0 * N1)
PoissonHybrid_columns(dom, geom, gpu, cba, r) ==
    IF r < Len(cba)
    THEN { [ rank |-> r, box |-> r + 1, col |-> ij,
             rows |-> IF gpu
                      THEN PoissonHybrid_rows_gpu(ij[1], ij[2], length(dom, 2), length(dom, 3),
                                                  PoissonHybrid_delz(dom, geom))
                      ELSE PoissonHybrid_rows_cpu(ij[1], ij[2], length(dom, 2), length(dom, 3),
                                                  PoissonHybrid_delz(dom, geom)),
             solved |-> { << ij[1], ij[2], k >> : k \in 0..(length(dom, 3) - 1) },
             scale |-> << 1, length(dom, 1) * length(dom, 2) >>,
             scaled |-> { << ij[1], ij[2], k >> : k \in 0..(length(dom, 3) - 1) } ] :
           ij \in Columns(cba[r + 1]) }
    ELSE { }

\* the content of spmf after the columns cols were solved: the solved cells
\* hold numbers the model does not track, unless the column held lost storage
Solved(val, cols) ==
    [ c \in DOMAIN val |->
        IF \E k \in cols : c \in k.solved
        THEN IF \E k \in cols : c \in k.solved /\ \E d \in k.solved : val[d] = Junk
             THEN Junk ELSE Opaque
        ELSE val[c] ]

\* PoissonHybrid::solve
PoissonHybrid_solve(dom) == forward_out(dom) \o << Stmt("tridiag") >> \o backward_in(dom)

R2C_Ops == { "forward", "backward", "forwardThenBackward", "forward_out", "backward_in" }

(***************************************************************************)
(* Execution of one statement                                              *)
(***************************************************************************)
\* the values array dst holds after the copy: dst(c) = src(dtos(c)) for the
\* cells c of dst inside mask whose source cell exists
ParallelCopy(dstval, srcval, mask, dtos) ==
    [ c \in DOMAIN dstval |->
        IF c \in mask /\ Dtos(dtos, c) \in DOMAIN srcval
        THEN srcval[Dtos(dtos, c)] ELSE dstval[c] ]

\* the number of copy descriptors that write cell c of the destination
CopyHits(dstba, srcba, dtos, c) ==
    Cardinality({ nm \in (1..Len(dstba)) \X (1..Len(srcba)) :
                    /\ c \in Cells(dstba[nm[1]])
                    /\ Dtos(dtos, c) \in Cells(srcba[nm[2]]) })

AllRanks == 0..(nprocs - 1)

\* the plan p executed as kernel/dir: the arrays after it
ExecPlan(m, p, kernel, dir, r) ==
    LET N    == length(p.box, 1)
        sv   == IF Alias(p.src, p.dst)
                THEN [ c \in DOMAIN m[p.src].val |-> Junk ] ELSE m[p.src].val
        tgt  == IF kernel = "r2c" /\ dir = "forward"
                THEN { c \in Cells(p.box) : c[1] <= N \div 2 }
                ELSE Cells(p.box)
        f(c) == CASE kernel = "r2c" /\ dir = "forward"  -> r2c_forward(sv, N, c)
                  [] kernel = "r2c" /\ dir = "backward" -> r2c_backward(sv, N, c)
                  [] kernel = "c2c"                     -> c2c(sv, N, dir, c)
                  [] OTHER                              -> r2r(sv, N, c)
        m1   == [ m EXCEPT ![p.dst].val =
                    [ c \in DOMAIN m[p.dst].val |->
                        IF c \in tgt THEN f(c) ELSE m[p.dst].val[c] ] ]
    IN  Clobber(m1, p.dst, { r })

\* the statement the rank r executes next
Prog ==
    CASE op = "forward"             -> forward(domain)
      [] op = "backward"            -> backward_doit(domain)
      [] op = "forwardThenBackward" -> forwardThenBackward(domain)
      [] op = "forward_out"         -> forward_out(domain)
      [] op = "backward_in"         -> backward_in(domain)
      [] op = "R2X_forwardThenBackward" ->
             R2X_forwardThenBackward(spacedim, m_bc, m_cmd, R2X_doms(spacedim, domain, m_bc))
      [] op = "solve"               -> PoissonHybrid_solve(domain)
      [] OTHER                      -> << >>

Running == status = "built" /\ op # "idle"

At(r, t) == Running /\ pc[r] <= Len(Prog) /\ Prog[pc[r]].t = t

AllAt(t) == \A r \in AllRanks : At(r, t) /\ pc[r] = pc[0]

Advance == pc' = [ r \in DOMAIN pc |-> pc[r] + 1 ]

Logged(e) == log' = [ r \in DOMAIN log |-> Append(log[r], e) ]

(***************************************************************************)
(* Inputs                                                                  *)
(***************************************************************************)
Domains(sd) ==
    { [ lo |-> lo, hi |-> << lo[1] + n[1] - 1, lo[2] + n[2] - 1, lo[3] + n[3] - 1 >>,
        cc |-> cc ] :
        lo \in { l \in SmallEnds : \A d \in 1..3 : d > sd => l[d] = 0 },
        n \in { l \in Lengths0 \X Lengths1 \X Lengths2 : \A d \in 1..3 : d > sd => l[d] = 1 },
        cc \in BOOLEAN }

\* the caller's real data: an impulse of height MaxVal at the last cell, or
\* a ramp
RealInputs(dom) ==
    { [ c \in Cells(dom) |-> IF c = dom.hi THEN << MaxVal, 0 >> ELSE << 0, 0 >> ] }
    \cup { [ c \in Cells(dom) |-> << (c[1] + 2 * c[2] + 3 * c[3]) % (MaxVal + 1), 0 >> ] }

\* the caller's spectral data on the canonical spectral domain
SpectralInputs(dom) ==
    { [ c \in Cells(m_spectral_domain_x(dom)) |->
          IF c = m_spectral_domain_x(dom).hi THEN << MaxVal, 0 >> ELSE << 0, 0 >> ] }
    \cup { [ c \in Cells(m_spectral_domain_x(dom)) |-> << c[1] % (MaxVal + 1), c[2] + c[3] >> ] }

\* the layout of the caller's spectral array: split along x and y
SpectralBA(dom) == decompose(m_spectral_domain_x(dom), nprocs, << TRUE, TRUE, FALSE >>)

(***************************************************************************)
(* Initial state: no engine yet                                            *)
(***************************************************************************)
Init ==
    /\ engine = ""
    /\ spacedim = 3
    /\ domain = [ lo |-> <<0,0,0>>, hi |-> <<0,0,0>>, cc |-> TRUE ]
    /\ m_info = [ batch_mode |-> FALSE ]
    /\ m_bc = << >>
    /\ nprocs = 1
    /\ status = "unbuilt"
    /\ abortAt = ""
    /\ mf = [ a \in ArrNames |-> EmptyFA ]
    /\ m_cmd = { }
    /\ share = { }
    /\ plan = << >>
    /\ op = "idle"
    /\ pc = << >>
    /\ log = << >>
    /\ calls = { }
    /\ inmf = << >>
    /\ outmf = << >>
    /\ spmf = [ val |-> << >>, writes |-> << >> ]
    /\ hist = << >>
    /\ released = << >>
    /\ m_geom = NoGeometry
    /\ build = ""
    /\ hip_pc = 0
    /\ execinfo = 0
    /\ buffersize = 0
    /\ buffer = 0
    /\ infos = << >>
    /\ arena = << >>
    /\ stream = << >>
    /\ hip_trace = << >>
    /\ hip_done = 0
    /\ hip_abort = ""

(***************************************************************************)
(* R2C                                                                     *)
(***************************************************************************)
\* R2C::R2C(domain, info) on every rank of a communicator of np ranks
R2C_Construct ==
    /\ status = "unbuilt"
    /\ \E sd \in 1..3, np \in 1..MaxProcs, batch \in BOOLEAN :
       \E dom \in Domains(sd), backend \in R2C_Builds(np) :
         LET info == [ batch_mode |-> batch ]
             bad  == R2C_asserts(sd, dom, info)
             m    == R2C_containers(sd, dom, info, np)
         IN  /\ engine' = "R2C"
             /\ spacedim' = sd
             /\ domain' = dom
             /\ m_info' = info
             /\ nprocs' = np
             /\ build' = ""
             /\ UNCHANGED hipvars
             /\ pc' = [ r \in 0..(np - 1) |-> 1 ]
             /\ log' = [ r \in 0..(np - 1) |-> << >> ]
             /\ IF bad # ""
                THEN /\ status' = "aborted"
                     /\ abortAt' = bad
                     /\ UNCHANGED << mf, m_cmd, share, plan >>
                ELSE /\ status' = "built"
                     /\ abortAt' = ""
                     /\ mf' = m
                     /\ share' = R2C_share
                     /\ m_cmd' = R2C_copiers(sd, m)
                     /\ plan' = [ r \in 0..(np - 1) |-> R2C_plans_on(backend, sd, m, r) ]
    /\ UNCHANGED << m_bc, op, calls, inmf, outmf, spmf, hist >>
    /\ released' = << >>
    /\ m_geom' = NoGeometry

\* every rank calls the member function o of the engine
R2C_Call ==
    /\ engine = "R2C" /\ status = "built" /\ op = "idle" /\ Len(hist) < MaxCalls
    /\ \E o \in R2C_Ops :
         /\ op' = o
         /\ hist' = Append(hist, o)
         /\ IF o \in { "forward", "forwardThenBackward", "forward_out" }
            THEN \E x \in RealInputs(domain) : inmf' = x
            ELSE UNCHANGED inmf
         /\ IF o = "backward_in"
            THEN \E x \in SpectralInputs(domain) :
                    spmf' = [ val |-> x, writes |-> [ c \in DOMAIN x |-> 0 ] ]
            ELSE spmf' = [ val |-> [ c \in Cells(m_spectral_domain_x(domain)) |-> Junk ],
                           writes |-> [ c \in Cells(m_spectral_domain_x(domain)) |-> 0 ] ]
    /\ pc' = [ r \in AllRanks |-> 1 ]
    /\ log' = [ r \in AllRanks |-> << >> ]
    /\ calls' = { }
    /\ outmf' = [ c \in Cells(domain) |-> Junk ]
    /\ UNCHANGED << engine, spacedim, domain, m_info, m_bc, nprocs, status, abortAt, mf,
                    m_cmd, share, plan >>
    /\ UNCHANGED released
    /\ UNCHANGED m_geom
    /\ UNCHANGED build
    /\ UNCHANGED hipvars

\* m_rx.ParallelCopy(inmf, 0, 0, 1)
CopyIn ==
    /\ AllAt("copy_in")
    /\ mf' = Clobber([ mf EXCEPT !["rx"].val =
                         ParallelCopy(mf["rx"].val, inmf, DOMAIN mf["rx"].val, "Identity") ],
                     "rx", AllRanks)
    /\ Logged(<< "copy", "Identity", "in", "rx" >>)
    /\ Advance
    /\ UNCHANGED << engine, spacedim, domain, m_info, m_bc, nprocs, status, abortAt, m_cmd,
                    share, plan, op, calls, inmf, outmf, spmf, hist >>
    /\ UNCHANGED released
    /\ UNCHANGED m_geom
    /\ UNCHANGED build
    /\ UNCHANGED hipvars

\* m_fft_<plan>.compute_<kernel><dir>() on rank r; nothing happens when the
\* plan is not defined
ComputeStep(r) ==
    /\ At(r, "compute")
    /\ LET s == Prog[pc[r]]
           p == plan[r][s.plan]
       IN  IF p.defined
           THEN /\ mf' = ExecPlan(mf, p, s.kernel, s.dir, r)
                /\ log' = [ log EXCEPT ![r] = Append(@, << s.kernel, s.dir, p.src, p.dst >>) ]
           ELSE UNCHANGED << mf, log >>
    /\ pc' = [ pc EXCEPT ![r] = @ + 1 ]
    /\ UNCHANGED << engine, spacedim, domain, m_info, m_bc, nprocs, status, abortAt, m_cmd,
                    share, plan, op, calls, inmf, outmf, spmf, hist >>
    /\ UNCHANGED released
    /\ UNCHANGED m_geom
    /\ UNCHANGED build
    /\ UNCHANGED hipvars

\* if (m_cmd_<cmd>) { ParallelCopy(dst, src, *m_cmd_<cmd>, 0, 0, 1, dtos); }
Redistribute ==
    /\ AllAt("copy")
    /\ LET s  == Prog[pc[0]]
           sv == IF Alias(s.src, s.dst)
                 THEN [ c \in DOMAIN mf[s.src].val |-> Junk ] ELSE mf[s.src].val
       IN  IF s.cmd \in m_cmd
           THEN /\ mf' = Clobber([ mf EXCEPT ![s.dst].val =
                                     ParallelCopy(mf[s.dst].val, sv, Cells(s.mask), s.dtos) ],
                                 s.dst, AllRanks)
                /\ Logged(<< "copy", s.dtos, s.src, s.dst >>)
           ELSE UNCHANGED << mf, log >>
    /\ Advance
    /\ UNCHANGED << engine, spacedim, domain, m_info, m_bc, nprocs, status, abortAt, m_cmd,
                    share, plan, op, calls, inmf, outmf, spmf, hist >>
    /\ UNCHANGED released
    /\ UNCHANGED m_geom
    /\ UNCHANGED build
    /\ UNCHANGED hipvars

\* outmf.ParallelCopy(m_rx, 0, 0, 1)
CopyOut ==
    /\ AllAt("copy_out")
    /\ outmf' = ParallelCopy(outmf, mf["rx"].val, DOMAIN outmf, "Identity")
    /\ Logged(<< "copy", "Identity", "rx", "out" >>)
    /\ Advance
    /\ UNCHANGED << engine, spacedim, domain, m_info, m_bc, nprocs, status, abortAt, mf, m_cmd,
                    share, plan, op, calls, inmf, spmf, hist >>
    /\ UNCHANGED released
    /\ UNCHANGED m_geom
    /\ UNCHANGED build
    /\ UNCHANGED hipvars

\* post_forward_doit that passes the stored index of every cell unpermuted
post_forward_doit_stored(m, r) ==
    LET a   == IF ~ empty(m["cz"]) THEN "cz" ELSE IF ~ empty(m["cy"]) THEN "cy" ELSE "cx"
        fab == get_fab(m[a], r)
    IN  IF fab = 0 THEN { }
        ELSE { [ rank |-> r, idx |-> c, arr |-> a, at |-> c ] : c \in Cells(m[a].ba[fab]) }

\* R2C::post_forward_doit on rank r of a non-batch engine: the invocations
\* post_forward(idx, a(at)) it makes, a being the local fab of array arr
post_forward_doit(m, r) ==
    IF ~ empty(m["cz"])
    THEN LET fab == get_fab(m["cz"], r)
         IN  IF fab = 0 THEN { }
             ELSE { [ rank |-> r, idx |-> << c[2], c[3], c[1] >>, arr |-> "cz", at |-> c ] :
                      c \in Cells(m["cz"].ba[fab]) }
    ELSE IF ~ empty(m["cy"])
    THEN LET fab == get_fab(m["cy"], r)
         IN  IF fab = 0 THEN { }
             ELSE { [ rank |-> r, idx |-> << c[2], c[1], c[3] >>, arr |-> "cy", at |-> c ] :
                      c \in Cells(m["cy"].ba[fab]) }
    ELSE LET fab == get_fab(m["cx"], r)
         IN  IF fab = 0 THEN { }
             ELSE { [ rank |-> r, idx |-> c, arr |-> "cx", at |-> c ] :
                      c \in Cells(m["cx"].ba[fab]) }

\* this->post_forward_doit(post_forward) on rank r
PostForward(r) ==
    /\ At(r, "post_forward")
    /\ IF m_info.batch_mode
       THEN /\ status' = "aborted"
            /\ abortAt' = "post_forward_todo"
            /\ UNCHANGED << calls, log, pc >>
       ELSE /\ calls' = calls \cup post_forward_doit(mf, r)
            /\ log' = [ log EXCEPT ![r] = Append(@, << "post_forward", "", "", "" >>) ]
            /\ pc' = [ pc EXCEPT ![r] = @ + 1 ]
            /\ UNCHANGED << status, abortAt >>
    /\ UNCHANGED << engine, spacedim, domain, m_info, m_bc, nprocs, mf, m_cmd,
                    share, plan, op, inmf, outmf, spmf, hist >>
    /\ UNCHANGED released
    /\ UNCHANGED m_geom
    /\ UNCHANGED build
    /\ UNCHANGED hipvars

\* getSpectralData that tests m_cy before m_cz
getSpectralData_cyfirst(m) ==
    IF ~ empty(m["cy"]) THEN << "cy", << 1, 0, 2 >> >>
    ELSE IF ~ empty(m["cz"]) THEN << "cz", << 2, 0, 1 >> >>
    ELSE << "cx", << 0, 1, 2 >> >>

\* R2C::getSpectralData: the array returned and its axis order
getSpectralData(m) ==
    IF ~ empty(m["cz"]) THEN << "cz", << 2, 0, 1 >> >>
    ELSE IF ~ empty(m["cy"]) THEN << "cy", << 1, 0, 2 >> >>
    ELSE << "cx", << 0, 1, 2 >> >>

\* std::swap(v[a], v[b]) on an IntVect (a, b are the source's 0-based axes)
swap(v, a, b) == [ v EXCEPT ![a + 1] = v[b + 1], ![b + 1] = v[a + 1] ]

\* R2C::getSpectralDataLayout: the box list and the distribution map
getSpectralDataLayout(sd, m) ==
    IF sd = 3 /\ ~ empty(m["cz"])
    THEN << [ n \in 1..Len(m["cz"].ba) |->
                Box(swap(swap(m["cz"].ba[n].lo, 0, 1), 1, 2),
                    swap(swap(m["cz"].ba[n].hi, 0, 1), 1, 2)) ],
            m["cz"].dm >>
    ELSE IF sd >= 2 /\ ~ ~ empty(m["cy"])
    THEN << [ n \in 1..Len(m["cy"].ba) |->
                Box(swap(m["cy"].ba[n].lo, 0, 1), swap(m["cy"].ba[n].hi, 0, 1)) ],
            m["cy"].dm >>
    ELSE << m["cx"].ba, m["cx"].dm >>

\* forward_export that rotates the indices the wrong way
forward_export_rotfwd(dom, m) ==
    IF ~ empty(m["cz"]) THEN << "cz", "RotateFwd", m_spectral_domain_x(dom) >>
    ELSE IF ~ empty(m["cy"]) THEN << "cy", "Swap01", m_spectral_domain_x(dom) >>
    ELSE << "cx", "Identity", m_spectral_domain_x(dom) >>

\* the tail of R2C::forward(in, out): the internal array copied to the
\* caller's array, the index transform and the destination mask
forward_export(dom, m) ==
    IF ~ empty(m["cz"]) THEN << "cz", "RotateBwd", m_spectral_domain_x(dom) >>
    ELSE IF ~ empty(m["cy"]) THEN << "cy", "Swap01", m_spectral_domain_x(dom) >>
    ELSE << "cx", "Identity", m_spectral_domain_x(dom) >>

\* backward_import that rotates the indices as the export does
backward_import_rotbwd(dom, m) ==
    IF ~ empty(m["cz"]) THEN << "cz", "RotateBwd", m_spectral_domain_z(dom) >>
    ELSE IF ~ empty(m["cy"]) THEN << "cy", "Swap01", m_spectral_domain_y(dom) >>
    ELSE << "cx", "Identity", m_spectral_domain_x(dom) >>

\* the head of R2C::backward(in, out): the internal array the caller's array
\* is copied to, the index transform and the destination mask
backward_import(dom, m) ==
    IF ~ empty(m["cz"]) THEN << "cz", "RotateFwd", m_spectral_domain_z(dom) >>
    ELSE IF ~ empty(m["cy"]) THEN << "cy", "Swap01", m_spectral_domain_y(dom) >>
    ELSE << "cx", "Identity", m_spectral_domain_x(dom) >>

Export ==
    /\ AllAt("export")
    /\ LET e   == forward_export(domain, mf)
           src == mf[e[1]]
       IN  /\ spmf' = [ val |-> ParallelCopy(spmf.val, src.val, Cells(e[3]), e[2]),
                        writes |-> [ c \in DOMAIN spmf.writes |->
                                       spmf.writes[c] +
                                       IF c \in Cells(e[3])
                                       THEN CopyHits(SpectralBA(domain), src.ba, e[2], c)
                                       ELSE 0 ] ]
           /\ Logged(<< "copy", e[2], e[1], "out" >>)
    /\ Advance
    /\ UNCHANGED << engine, spacedim, domain, m_info, m_bc, nprocs, status, abortAt, mf, m_cmd,
                    share, plan, op, calls, inmf, outmf, hist >>
    /\ UNCHANGED released
    /\ UNCHANGED m_geom
    /\ UNCHANGED build
    /\ UNCHANGED hipvars

Import ==
    /\ AllAt("import")
    /\ LET e == backward_import(domain, mf)
       IN  /\ mf' = Clobber([ mf EXCEPT ![e[1]].val =
                                ParallelCopy(mf[e[1]].val, spmf.val, Cells(e[3]), e[2]) ],
                            e[1], AllRanks)
           /\ Logged(<< "copy", e[2], "in", e[1] >>)
    /\ Advance
    /\ UNCHANGED << engine, spacedim, domain, m_info, m_bc, nprocs, status, abortAt, m_cmd,
                    share, plan, op, calls, inmf, outmf, spmf, hist >>
    /\ UNCHANGED released
    /\ UNCHANGED m_geom
    /\ UNCHANGED build
    /\ UNCHANGED hipvars

\* the member function returns on every rank
Return ==
    /\ Running
    /\ \A r \in AllRanks : pc[r] > Len(Prog)
    /\ op' = "idle"
    /\ UNCHANGED << engine, spacedim, domain, m_info, m_bc, nprocs, status, abortAt, mf, m_cmd,
                    share, plan, pc, log, calls, inmf, outmf, spmf, hist >>
    /\ UNCHANGED released
    /\ UNCHANGED m_geom
    /\ UNCHANGED build
    /\ UNCHANGED hipvars

(***************************************************************************)
(* R2X                                                                     *)
(***************************************************************************)
\* the boundary pairs of the axes of a build of dimension sd; the axes the
\* build does not have carry << "none", "none" >>
BCs(sd) ==
    { bc \in [ 1..3 -> (Boundaries \X Boundaries) \cup { << "none", "none" >> } ] :
        \A d \in 1..3 : (d > sd) <=> (bc[d] = << "none", "none" >>) }

\* R2X::R2X(domain, bc) on every rank of a communicator of np ranks
R2X_Construct ==
    /\ status = "unbuilt"
    /\ \E sd \in 1..3, np \in 1..MaxProcs :
       \E backend \in R2X_Builds(np),
          dom \in { x \in Domains(sd) : x.lo = <<0,0,0>> /\ x.cc }, bc \in BCs(sd) :
         LET bad == R2X_asserts(sd, dom, bc)
             m   == R2X_containers(sd, dom, bc, np)
         IN  /\ engine' = "R2X"
             /\ spacedim' = sd
             /\ domain' = dom
             /\ m_bc' = bc
             /\ nprocs' = np
             /\ build' = ""
             /\ UNCHANGED hipvars
             /\ pc' = [ r \in 0..(np - 1) |-> 1 ]
             /\ log' = [ r \in 0..(np - 1) |-> << >> ]
             /\ IF bad # ""
                THEN /\ status' = "aborted"
                     /\ abortAt' = bad
                     /\ UNCHANGED << mf, m_cmd, share, plan >>
                ELSE /\ status' = "built"
                     /\ abortAt' = ""
                     /\ mf' = m
                     /\ share' = R2X_share(m)
                     /\ m_cmd' = R2X_copiers(sd, dom, m)
                     /\ plan' = [ r \in 0..(np - 1) |-> R2X_plans_on(backend, sd, bc, m, r) ]
    /\ UNCHANGED << m_info, op, calls, inmf, outmf, spmf, hist >>
    /\ released' = << >>
    /\ m_geom' = NoGeometry

\* Poisson::solve on every rank: m_r2x.forwardThenBackward(rhs, soln, f); the
\* values of rhs are not tracked
R2X_Call ==
    /\ engine = "R2X" /\ status = "built" /\ op = "idle" /\ Len(hist) < MaxCalls
    /\ op' = "R2X_forwardThenBackward"
    /\ hist' = Append(hist, "R2X_forwardThenBackward")
    /\ inmf' = [ c \in Cells(domain) |-> Opaque ]
    /\ pc' = [ r \in AllRanks |-> 1 ]
    /\ log' = [ r \in AllRanks |-> << >> ]
    /\ calls' = { }
    /\ outmf' = [ c \in Cells(domain) |-> Junk ]
    /\ UNCHANGED << engine, spacedim, domain, m_info, m_bc, nprocs, status, abortAt, mf,
                    m_cmd, share, plan, spmf >>
    /\ UNCHANGED released
    /\ UNCHANGED m_geom
    /\ UNCHANGED build
    /\ UNCHANGED hipvars

\* the post-forward part of R2X::forwardThenBackward on rank r
R2X_PostForward(r) ==
    /\ At(r, "r2x_post_forward")
    /\ LET ad == R2X_actual_dim(spacedim, domain)
       IN  calls' = calls \cup
                    Poisson_post_forward(spacedim, domain, m_bc, ad - 1, mf,
                                         R2X_post_forward_array(ad, mf), r)
    /\ log' = [ log EXCEPT ![r] = Append(@, << "post_forward", "", "", "" >>) ]
    /\ pc' = [ pc EXCEPT ![r] = @ + 1 ]
    /\ UNCHANGED << engine, spacedim, domain, m_info, m_bc, nprocs, status, abortAt, mf, m_cmd,
                    share, plan, op, inmf, outmf, spmf, hist >>
    /\ UNCHANGED released
    /\ UNCHANGED m_geom
    /\ UNCHANGED build
    /\ UNCHANGED hipvars

\* the domains a PoissonHybrid solver is constructed on: those of the engines
\* and one of three cells along z
HybridDomains(sd) ==
    Domains(sd) \cup
    (IF sd = 3 THEN { [ lo |-> << 0, 0, 0 >>, hi |-> << 3, 1, 2 >>, cc |-> TRUE ] } ELSE { })

\* PoissonHybrid::PoissonHybrid(geom) on every rank of a communicator of np
\* ranks: the member m_r2c(geom.Domain(), Info().setBatchMode(true)), then the body
PoissonHybrid_Construct ==
    /\ status = "unbuilt"
    /\ \E sd \in 1..3, np \in 1..MaxProcs, geom \in Geometries :
       \E dom \in HybridDomains(sd), backend \in R2C_Builds(np) :
         LET info == [ batch_mode |-> TRUE ]
             bad  == R2C_asserts(sd, dom, info)
             m    == R2C_containers(sd, dom, info, np)
         IN  /\ engine' = "PoissonHybrid"
             /\ spacedim' = sd
             /\ domain' = dom
             /\ m_info' = info
             /\ m_geom' = geom
             /\ nprocs' = np
             /\ build' = backend
             /\ UNCHANGED hipvars
             /\ pc' = [ r \in 0..(np - 1) |-> 1 ]
             /\ log' = [ r \in 0..(np - 1) |-> << >> ]
             /\ IF bad # "" \/ PoissonHybrid_asserts(sd, geom) # ""
                THEN /\ status' = "aborted"
                     /\ abortAt' = IF bad # "" THEN bad ELSE PoissonHybrid_asserts(sd, geom)
                     /\ UNCHANGED << mf, m_cmd, share, plan >>
                ELSE /\ status' = "built"
                     /\ abortAt' = ""
                     /\ mf' = m
                     /\ share' = R2C_share
                     /\ m_cmd' = R2C_copiers(sd, m)
                     /\ plan' = [ r \in 0..(np - 1) |-> R2C_plans_on(backend, sd, m, r) ]
    /\ UNCHANGED << m_bc, op, calls, inmf, outmf, spmf, hist >>
    /\ released' = << >>

\* every rank calls PoissonHybrid::solve(soln, rhs); the values of rhs are not
\* tracked
PoissonHybrid_Call ==
    /\ engine = "PoissonHybrid" /\ status = "built" /\ op = "idle" /\ Len(hist) < MaxCalls
    /\ op' = "solve"
    /\ hist' = Append(hist, "solve")
    /\ inmf' = [ c \in Cells(domain) |-> Opaque ]
    /\ spmf' = [ val |-> [ c \in CellsOfBA(PoissonHybrid_cba(domain, nprocs)) |-> Junk ],
                 writes |-> [ c \in CellsOfBA(PoissonHybrid_cba(domain, nprocs)) |-> 0 ] ]
    /\ pc' = [ r \in AllRanks |-> 1 ]
    /\ log' = [ r \in AllRanks |-> << >> ]
    /\ calls' = { }
    /\ outmf' = [ c \in Cells(domain) |-> Junk ]
    /\ UNCHANGED << engine, spacedim, domain, m_info, m_bc, nprocs, status, abortAt, mf,
                    m_cmd, share, plan, released, m_geom, build >>
    /\ UNCHANGED hipvars

\* the MFIter loop of PoissonHybrid::solve on rank r
Tridiag(r) ==
    /\ At(r, "tridiag")
    /\ LET cols == PoissonHybrid_columns(domain, m_geom, build \in { "gpu", "sycl" },
                                         PoissonHybrid_cba(domain, nprocs), r)
       IN  /\ calls' = calls \cup cols
           /\ spmf' = [ spmf EXCEPT !.val = Solved(spmf.val, cols) ]
    /\ log' = [ log EXCEPT ![r] = Append(@, << "tridiag", "", "", "" >>) ]
    /\ pc' = [ pc EXCEPT ![r] = @ + 1 ]
    /\ UNCHANGED << engine, spacedim, domain, m_info, m_bc, nprocs, status, abortAt, mf, m_cmd,
                    share, plan, op, inmf, outmf, hist, released, m_geom, build >>
    /\ UNCHANGED hipvars

\* the engine goes out of scope on every rank: ~R2C (also of the m_r2c member of
\* a PoissonHybrid solver) or ~R2X
Destroy ==
    /\ status = "built" /\ op = "idle"
    /\ status' = "destroyed"
    /\ released' = [ r \in AllRanks |->
                       IF engine = "R2X" THEN R2X_destructor(plan[r])
                                         ELSE R2C_destructor(plan[r]) ]
    /\ UNCHANGED << engine, spacedim, domain, m_info, m_bc, nprocs, abortAt, mf, m_cmd,
                    share, plan, op, pc, log, calls, inmf, outmf, spmf, hist >>
    /\ UNCHANGED m_geom
    /\ UNCHANGED build
    /\ UNCHANGED hipvars

(***************************************************************************)
(* detail::hip_execute (AMREX_USE_HIP)                                     *)
(***************************************************************************)
\* an execution that releases the work buffer before it waits for the stream
hip_execute_early_free ==
    << "rocfft_execution_info_create", "rocfft_plan_get_work_buffer_size", "alloc",
       "rocfft_execution_info_set_work_buffer", "rocfft_execution_info_set_stream",
       "rocfft_execute", "free", "streamSynchronize",
       "rocfft_execution_info_destroy" >>

\* the statements of hip_execute(plan, in, out), in program order
hip_execute ==
    << "rocfft_execution_info_create", "rocfft_plan_get_work_buffer_size", "alloc",
       "rocfft_execution_info_set_work_buffer", "rocfft_execution_info_set_stream",
       "rocfft_execute", "streamSynchronize", "free",
       "rocfft_execution_info_destroy" >>

HipAt(t) == hip_abort = "" /\ hip_pc \in DOMAIN hip_execute /\ hip_execute[hip_pc] = t

\* the statement has completed: it is recorded and control moves on
HipNext(t) == hip_pc' = hip_pc + 1 /\ hip_trace' = Append(hip_trace, t)

\* AMREX_ROCFFT_SAFE_CALL: a call that does not return rocfft_status_success
\* ends the program
HipFail(t) ==
    /\ hip_abort' = t
    /\ UNCHANGED << hip_pc, execinfo, buffersize, buffer, infos, arena, stream, hip_trace,
                    hip_done >>

\* a compute_* member function of a plan calls hip_execute; earlier kernels of
\* the caller may still be queued on the stream
Hip_Call ==
    /\ hip_abort = "" /\ hip_pc = 0 /\ hip_done < MaxCalls
    /\ hip_pc' = 1
    /\ execinfo' = 0
    /\ buffersize' = 0
    /\ buffer' = 0
    /\ hip_trace' = << >>
    /\ \E busy \in BOOLEAN : stream' = IF busy THEN Append(stream, 0) ELSE stream
    /\ UNCHANGED << infos, arena, hip_done, hip_abort >>
    /\ UNCHANGED enginevars

\* AMREX_ROCFFT_SAFE_CALL(rocfft_execution_info_create(&execinfo))
Hip_info_create ==
    /\ HipAt("rocfft_execution_info_create")
    /\ \E ok \in BOOLEAN :
         IF ok
         THEN /\ execinfo' = hip_done + 1
              /\ infos' = [ e \in DOMAIN infos \cup { hip_done + 1 } |->
                              IF e = hip_done + 1 THEN [ buffer |-> 0, stream |-> FALSE ]
                              ELSE infos[e] ]
              /\ HipNext("rocfft_execution_info_create")
              /\ UNCHANGED << buffersize, buffer, arena, stream, hip_done, hip_abort >>
         ELSE HipFail("rocfft_execution_info_create")
    /\ UNCHANGED enginevars

\* AMREX_ROCFFT_SAFE_CALL(rocfft_plan_get_work_buffer_size(plan, &buffersize))
Hip_get_work_buffer_size ==
    /\ HipAt("rocfft_plan_get_work_buffer_size")
    /\ \E ok \in BOOLEAN, n \in 0..MaxVal :
         IF ok
         THEN /\ buffersize' = n
              /\ HipNext("rocfft_plan_get_work_buffer_size")
              /\ UNCHANGED << execinfo, buffer, infos, arena, stream, hip_done, hip_abort >>
         ELSE HipFail("rocfft_plan_get_work_buffer_size")
    /\ UNCHANGED enginevars

\* buffer = The_Arena()->alloc(buffersize)
Hip_alloc ==
    /\ HipAt("alloc")
    /\ buffer' = hip_done + 1
    /\ arena' = [ b \in DOMAIN arena \cup { hip_done + 1 } |->
                    IF b = hip_done + 1 THEN buffersize ELSE arena[b] ]
    /\ HipNext("alloc")
    /\ UNCHANGED << execinfo, buffersize, infos, stream, hip_done, hip_abort >>
    /\ UNCHANGED enginevars

\* AMREX_ROCFFT_SAFE_CALL(rocfft_execution_info_set_work_buffer(execinfo, buffer, buffersize))
Hip_set_work_buffer ==
    /\ HipAt("rocfft_execution_info_set_work_buffer")
    /\ \E ok \in BOOLEAN :
         IF ok /\ execinfo \in DOMAIN infos
         THEN /\ infos' = [ infos EXCEPT ![execinfo].buffer = buffer ]
              /\ HipNext("rocfft_execution_info_set_work_buffer")
              /\ UNCHANGED << execinfo, buffersize, buffer, arena, stream, hip_done,
                              hip_abort >>
         ELSE HipFail("rocfft_execution_info_set_work_buffer")
    /\ UNCHANGED enginevars

\* AMREX_ROCFFT_SAFE_CALL(rocfft_execution_info_set_stream(execinfo, gpuStream()))
Hip_set_stream ==
    /\ HipAt("rocfft_execution_info_set_stream")
    /\ \E ok \in BOOLEAN :
         IF ok /\ execinfo \in DOMAIN infos
         THEN /\ infos' = [ infos EXCEPT ![execinfo].stream = TRUE ]
              /\ HipNext("rocfft_execution_info_set_stream")
              /\ UNCHANGED << execinfo, buffersize, buffer, arena, stream, hip_done,
                              hip_abort >>
         ELSE HipFail("rocfft_execution_info_set_stream")
    /\ UNCHANGED enginevars

\* AMREX_ROCFFT_SAFE_CALL(rocfft_execute(plan, in, out, execinfo)): the transform
\* is queued on the stream and works in the buffer bound to execinfo
Hip_execute ==
    /\ HipAt("rocfft_execute")
    /\ \E ok \in BOOLEAN :
         IF ok /\ execinfo \in DOMAIN infos
         THEN /\ stream' = Append(stream, infos[execinfo].buffer)
              /\ HipNext("rocfft_execute")
              /\ UNCHANGED << execinfo, buffersize, buffer, infos, arena, hip_done,
                              hip_abort >>
         ELSE HipFail("rocfft_execute")
    /\ UNCHANGED enginevars

\* the device finishes the kernel at the head of the stream
Hip_kernel ==
    /\ hip_abort = ""
    /\ stream # << >>
    /\ stream' = Tail(stream)
    /\ UNCHANGED << hip_pc, execinfo, buffersize, buffer, infos, arena, hip_trace, hip_done,
                    hip_abort >>
    /\ UNCHANGED enginevars

\* Gpu::streamSynchronize(): returns when nothing is queued on the stream
Hip_streamSynchronize ==
    /\ HipAt("streamSynchronize")
    /\ stream = << >>
    /\ HipNext("streamSynchronize")
    /\ UNCHANGED << execinfo, buffersize, buffer, infos, arena, stream, hip_done, hip_abort >>
    /\ UNCHANGED enginevars

\* The_Arena()->free(buffer)
Hip_free ==
    /\ HipAt("free")
    /\ arena' = [ b \in DOMAIN arena \ { buffer } |-> arena[b] ]
    /\ HipNext("free")
    /\ UNCHANGED << execinfo, buffersize, buffer, infos, stream, hip_done, hip_abort >>
    /\ UNCHANGED enginevars

\* AMREX_ROCFFT_SAFE_CALL(rocfft_execution_info_destroy(execinfo))
Hip_info_destroy ==
    /\ HipAt("rocfft_execution_info_destroy")
    /\ \E ok \in BOOLEAN :
         IF ok
         THEN /\ infos' = [ e \in DOMAIN infos \ { execinfo } |-> infos[e] ]
              /\ HipNext("rocfft_execution_info_destroy")
              /\ UNCHANGED << execinfo, buffersize, buffer, arena, stream, hip_done,
                              hip_abort >>
         ELSE HipFail("rocfft_execution_info_destroy")
    /\ UNCHANGED enginevars

\* hip_execute returns
Hip_Return ==
    /\ hip_abort = "" /\ hip_pc = Len(hip_execute) + 1
    /\ hip_pc' = 0
    /\ hip_done' = hip_done + 1
    /\ UNCHANGED << execinfo, buffersize, buffer, infos, arena, stream, hip_trace, hip_abort >>
    /\ UNCHANGED enginevars

HipStep ==
    \/ Hip_Call
    \/ Hip_info_create
    \/ Hip_get_work_buffer_size
    \/ Hip_alloc
    \/ Hip_set_work_buffer
    \/ Hip_set_stream
    \/ Hip_execute
    \/ Hip_kernel
    \/ Hip_streamSynchronize
    \/ Hip_free
    \/ Hip_info_destroy
    \/ Hip_Return

\* the invocations of hip_execute of a HIP build, one after another
HipSpec == Init /\ [][HipStep]_vars

Next ==
    \/ R2C_Construct
    \/ R2C_Call
    \/ R2X_Construct
    \/ R2X_Call
    \/ \E r \in AllRanks : R2X_PostForward(r)
    \/ CopyIn
    \/ \E r \in AllRanks : ComputeStep(r)
    \/ Redistribute
    \/ \E r \in AllRanks : PostForward(r)
    \/ CopyOut
    \/ Export
    \/ Import
    \/ Return
    \/ PoissonHybrid_Construct
    \/ PoissonHybrid_Call
    \/ \E r \in AllRanks : Tridiag(r)
    \/ Destroy

Spec == Init /\ [][Next]_vars

(***************************************************************************)
(* Properties                                                              *)
(***************************************************************************)
Done == Running /\ \A r \in AllRanks : pc[r] > Len(Prog)

Range(q) == { q[i] : i \in 1..Len(q) }

Reverse(q) == [ i \in 1..Len(q) |-> q[Len(q) + 1 - i] ]

Pos(canon, e) == CHOOSE k \in 1..Len(canon) : canon[k] = e

\* l lists elements of canon, each at most once, in the order of canon
InOrder(l, canon) ==
    /\ \A i \in 1..Len(l) : l[i] \in Range(canon)
    /\ \A i, j \in 1..Len(l) : i < j => Pos(canon, l[i]) < Pos(canon, l[j])

N0 == length(domain, 1)
N1 == length(domain, 2)
N2 == length(domain, 3)

\* a 3-D engine that is not in batch mode
Full3D == spacedim = 3 /\ N1 > 1 /\ N2 > 1 /\ ~ m_info.batch_mode

\* rank r owns a box of every phase
OwnsAll(r) == r < size(mf["rx"]) /\ r < size(mf["cy"]) /\ r < size(mf["cz"])

ForwardOrder ==
    << << "copy", "Identity", "in", "rx" >>,
       << "r2c", "forward", "rx", "cx" >>,
       << "copy", "Swap01", "cx", "cy" >>,
       << "c2c", "forward", "cy", "cy" >>,
       << "copy", "Swap02", "cy", "cz" >>,
       << "c2c", "forward", "cz", "cz" >> >>

BackwardOrder ==
    << << "c2c", "backward", "cz", "cz" >>,
       << "copy", "Swap02", "cz", "cy" >>,
       << "c2c", "backward", "cy", "cy" >>,
       << "copy", "Swap01", "cy", "cx" >>,
       << "r2c", "backward", "cx", "rx" >>,
       << "copy", "Identity", "rx", "out" >> >>

\* C1: during R2C::forward(in) every rank executes copy in -> rx, r2c along
\* x, the Swap01 copy cx -> cy, c2c along y, the Swap02 copy cy -> cz and
\* c2c along z in this order, none twice; a rank of a 3-D non-batch engine
\* that owns a box of every phase has executed exactly these six steps when
\* forward returns; and a redistribution is executed only after every rank
\* has transformed the phase it leaves.
C1_ForwardOrder ==
    (engine = "R2C" /\ status = "built" /\ op = "forward") =>
        \A r \in AllRanks :
            /\ InOrder(log[r], ForwardOrder)
            /\ (pc[r] > Len(Prog) /\ Full3D /\ OwnsAll(r)) => log[r] = ForwardOrder
            /\ << "copy", "Swap01", "cx", "cy" >> \in Range(log[r]) =>
                   \A q \in AllRanks : q < size(mf["rx"]) =>
                       << "r2c", "forward", "rx", "cx" >> \in Range(log[q])
            /\ << "copy", "Swap02", "cy", "cz" >> \in Range(log[r]) =>
                   \A q \in AllRanks : q < size(mf["cy"]) =>
                       << "c2c", "forward", "cy", "cy" >> \in Range(log[q])

C1_Witness ==
    /\ engine = "R2C" /\ op = "forward" /\ Done /\ nprocs > 1
    /\ log[1] = ForwardOrder

\* the step that undoes step e
Mirror(e) ==
    LET io(a) == IF a = "in" THEN "out" ELSE IF a = "out" THEN "in" ELSE a
    IN  IF e[1] = "copy" THEN << "copy", e[2], io(e[4]), io(e[3]) >>
        ELSE << e[1], IF e[2] = "forward" THEN "backward" ELSE "forward", e[4], e[3] >>

PostEntry == << "post_forward", "", "", "" >>

\* C2: during R2C::backward(out) every rank executes c2c backward along z,
\* the Swap02 copy cz -> cy, c2c backward along y, the Swap01 copy cy -> cx,
\* c2r along x and the copy rx -> out in this order; the copy to out is the
\* last step; and in forwardThenBackward the steps after the callback are
\* the mirror images of the steps before it, in reverse order.
C2_BackwardMirror ==
    (engine = "R2C" /\ status = "built") =>
        \A r \in AllRanks :
            /\ op = "backward" =>
                 /\ InOrder(log[r], BackwardOrder)
                 /\ pc[r] > Len(Prog) =>
                        log[r][Len(log[r])] = << "copy", "Identity", "rx", "out" >>
                 /\ (pc[r] > Len(Prog) /\ Full3D /\ OwnsAll(r)) => log[r] = BackwardOrder
            /\ (op = "forwardThenBackward" /\ pc[r] > Len(Prog)) =>
                 \E i \in 1..Len(log[r]) :
                    /\ log[r][i] = PostEntry
                    /\ SubSeq(log[r], i + 1, Len(log[r]))
                         = Reverse([ j \in 1..(i - 1) |-> Mirror(log[r][j]) ])

C2_Witness ==
    /\ engine = "R2C" /\ op = "backward" /\ Done /\ nprocs > 1
    /\ log[1] = BackwardOrder

\* the axis whose transform halves the spectrum: x for R2C, the first
\* periodic axis for R2X (0 when there is none)
HalfAxis ==
    IF engine = "R2C" THEN 1
    ELSE IF m_bc[1][1] = "periodic" THEN 1
    ELSE IF spacedim >= 2 /\ m_bc[2][1] = "periodic" THEN 2
    ELSE IF spacedim = 3 /\ m_bc[3][1] = "periodic" THEN 3
    ELSE 0

\* the spectral domain in canonical (x,y,z) order
SpectralCells ==
    LET ext(d) == IF d = HalfAxis THEN length(domain, d) \div 2 ELSE length(domain, d) - 1
    IN  { << x, y, z >> : x \in 0..ext(1), y \in 0..ext(2), z \in 0..ext(3) }

\* the axis along which an array is stored first
Phase(a) ==
    CASE a \in { "rx", "cx" } -> 1
      [] a \in { "ry", "cy" } -> 2
      [] a \in { "rz", "cz" } -> 3
      [] OTHER -> 0

\* where array a stores the value of canonical index idx
StoredAt(a, idx) ==
    CASE Phase(a) = 3 -> << idx[3], idx[1], idx[2] >>
      [] Phase(a) = 2 -> << idx[2], idx[1], idx[3] >>
      [] OTHER -> idx

\* the number of axes the engine transforms
LastPhase == IF N1 = 1 THEN 1 ELSE IF N2 = 1 THEN 2 ELSE 3

InFTB == status = "built" /\ op \in { "forwardThenBackward", "R2X_forwardThenBackward" }

CallsAt(c) == { k \in calls : k.idx = c }

\* C3: in forwardThenBackward of a non-batch R2C engine or of R2X, every
\* invocation of post_forward passes a canonical index of the spectral
\* domain together with the cell of the last phase's array that stores that
\* index ((z,x,y) in cz, (y,x,z) in cy, (x,y,z) in cx); no cell is passed
\* twice, and once every rank has run the callback every cell has been
\* passed exactly once.
C3_PostForwardOncePerCell ==
    InFTB =>
        /\ \A k \in calls :
              /\ k.idx \in SpectralCells
              /\ Phase(k.arr) = LastPhase
              /\ k.at = StoredAt(k.arr, k.idx)
              /\ k.at \in DOMAIN mf[k.arr].val
        /\ \A c \in SpectralCells : Cardinality(CallsAt(c)) <= 1
        /\ (\A r \in AllRanks : PostEntry \in Range(log[r])) =>
              \A c \in SpectralCells : Cardinality(CallsAt(c)) = 1

C3_Witness ==
    /\ engine = "R2C" /\ op = "forwardThenBackward" /\ Done /\ nprocs > 1
    /\ \E k \in calls : k.arr = "cz" /\ k.rank = 1 /\ k.at # k.idx

IsFwd(e) ==
    /\ e # PostEntry
    /\ IF e[1] = "copy" THEN Phase(e[4]) > Phase(e[3]) ELSE e[2] = "forward"

IsBwd(e) ==
    /\ e # PostEntry
    /\ IF e[1] = "copy" THEN Phase(e[4]) < Phase(e[3]) ELSE e[2] = "backward"

\* the array of the last phase: the complex one when it exists
LastArray ==
    LET ax == CASE LastPhase = 1 -> "x" [] LastPhase = 2 -> "y" [] OTHER -> "z"
    IN  IF ~ empty(mf["c" \o ax]) THEN "c" \o ax ELSE "r" \o ax

\* the number of cells of the last phase's array that rank r owns
LocalCells(r) ==
    IF r < size(mf[LastArray]) THEN numPts(mf[LastArray].ba[r + 1]) ELSE 0

FwdPlans == { "fwd_x", "fwd_y", "fwd_z" }

\* C4: in forwardThenBackward of R2C and of R2X a rank runs the callback
\* only after the copy in, every forward redistribution and every forward
\* transform it has a plan for; everything it executes before the callback
\* is a forward step and everything after it a backward step; and once it
\* has executed a backward step the callback has been invoked for every
\* cell it owns.
C4_CallbackBetween ==
    InFTB =>
        \A r \in AllRanks :
            /\ \A i \in 1..Len(log[r]) :
                 log[r][i] = PostEntry =>
                    /\ \A j \in 1..(i - 1) : IsFwd(log[r][j])
                    /\ \A j \in (i + 1)..Len(log[r]) : IsBwd(log[r][j])
                    /\ Cardinality({ j \in 1..(i - 1) : log[r][j][1] = "copy" })
                         = 1 + Cardinality(m_cmd) \div 2
                    /\ Cardinality({ j \in 1..(i - 1) : log[r][j][1] # "copy" })
                         = Cardinality({ n \in FwdPlans : plan[r][n].defined })
            /\ PostEntry \notin Range(log[r]) => \A j \in 1..Len(log[r]) : IsFwd(log[r][j])
            /\ (\E j \in 1..Len(log[r]) : IsBwd(log[r][j])) =>
                   Cardinality({ k \in calls : k.rank = r }) = LocalCells(r)

C4_Witness ==
    /\ engine = "R2X" /\ op = "R2X_forwardThenBackward" /\ Done
    /\ spacedim = 3 /\ nprocs > 1 /\ ~ empty(mf["ry"]) /\ ~ empty(mf["cz"])
    /\ Cardinality({ k \in calls : k.rank = 1 }) > 0

\* C5: when R2C::forward(in, out_spectral) returns, every cell (x,y,z) of
\* the spectral domain of out_spectral holds the value stored at cz(z,x,y)
\* when cz exists (3-D non-batch), at cy(y,x,z) when only cy exists (2-D or
\* batch mode), at cx(x,y,z) otherwise; it is a defined number and was
\* written exactly once.
C5_ForwardOut ==
    (engine = "R2C" /\ op = "forward_out" /\ Done) =>
        /\ ~ empty(mf["cz"]) <=> Full3D
        /\ ~ empty(mf["cy"]) <=> N1 > 1
        /\ \A c \in Cells(m_spectral_domain_x(domain)) :
              /\ spmf.val[c] =
                    IF ~ empty(mf["cz"]) THEN mf["cz"].val[<< c[3], c[1], c[2] >>]
                    ELSE IF ~ empty(mf["cy"]) THEN mf["cy"].val[<< c[2], c[1], c[3] >>]
                    ELSE mf["cx"].val[c]
              /\ IsNum(spmf.val[c])
              /\ spmf.writes[c] = 1

C5_Witness ==
    /\ engine = "R2C" /\ op = "forward_out" /\ Done /\ nprocs > 1
    /\ ~ empty(mf["cz"])
    /\ \E c \in DOMAIN spmf.val : spmf.val[c][2] # 0

\* the canonical index of the cell an array with axis order perm stores at at
Canon(perm, at) == [ a \in 1..3 |-> at[CHOOSE d \in 1..3 : perm[d] = a - 1] ]

\* C6: getSpectralData returns cz with (2,0,1) for a 3-D non-batch engine,
\* cy with (1,0,2) when N1 > 1 and N2 = 1 or batch_mode is set, cx with
\* (0,1,2) when N1 = 1; the array is the one rank 0 wrote last in forward,
\* and the permutation sends every stored index to the canonical index that
\* forward(in, out) gives the same value.
C6_SpectralData ==
    (engine = "R2C" /\ status = "built") =>
        LET g == getSpectralData(mf)
        IN  /\ Full3D => g = << "cz", << 2, 0, 1 >> >>
            /\ (N1 > 1 /\ (N2 = 1 \/ m_info.batch_mode)) => g = << "cy", << 1, 0, 2 >> >>
            /\ N1 = 1 => g = << "cx", << 0, 1, 2 >> >>
            /\ (op = "forward" /\ Done) => log[0][Len(log[0])][4] = g[1]
            /\ (op = "forward_out" /\ Done) =>
                  \A at \in DOMAIN mf[g[1]].val :
                      spmf.val[Canon(g[2], at)] = mf[g[1]].val[at]

C6_Witness ==
    /\ engine = "R2C" /\ op = "forward_out" /\ Done /\ m_info.batch_mode
    /\ getSpectralData(mf) = << "cy", << 1, 0, 2 >> >>
    /\ N0 = 4 /\ N2 = 2

\* C7: getSpectralDataLayout returns a non-empty box list, namely the boxes
\* of the array getSpectralData returns with their axes put in (x,y,z)
\* order, together with that array's distribution map, and the boxes cover
\* exactly the spectral domain.
C7_SpectralLayout ==
    (engine = "R2C" /\ status = "built") =>
        LET g == getSpectralData(mf)
            a == mf[g[1]]
            L == getSpectralDataLayout(spacedim, mf)
        IN  /\ Len(L[1]) > 0
            /\ L[1] = [ n \in 1..size(a) |->
                          Box(Canon(g[2], a.ba[n].lo), Canon(g[2], a.ba[n].hi)) ]
            /\ L[2] = a.dm
            /\ CellsOfBA(L[1]) = Cells(m_spectral_domain_x(domain))

\* backward(out) has returned and the call before it was forward(in)
RoundTripDone ==
    /\ engine = "R2C" /\ op = "backward" /\ Done
    /\ Len(hist) >= 2 /\ hist[Len(hist) - 1] = "forward"

NothingBuilt ==
    /\ \A a \in ArrNames : empty(mf[a])
    /\ m_cmd = { } /\ share = { } /\ plan = << >>

\* C9: R2C construction aborts when the lower corner is not 0, when N0 <= 1
\* or when (3-D, non-batch) N1 <= 1 and N2 > 1; for a non-batch engine on a
\* cell-centred domain it aborts in no other case; and when it aborts, no
\* array, copier, shared buffer or plan has been made.
C9_R2CConstruct ==
    engine = "R2C" =>
        /\ (\/ domain.lo # <<0,0,0>>
            \/ N0 <= 1
            \/ (spacedim = 3 /\ ~ m_info.batch_mode /\ N1 <= 1 /\ N2 > 1))
              => status = "aborted"
        /\ (~ m_info.batch_mode /\ domain.cc) =>
              (status = "aborted" <=>
                 (domain.lo # <<0,0,0>> \/ N0 <= 1 \/ (N1 <= 1 /\ N2 > 1)))
        /\ (status = "aborted" /\ abortAt # "post_forward_todo") => NothingBuilt

C9_Witness ==
    /\ engine = "R2C" /\ status = "aborted" /\ abortAt = "assert_y"
    /\ ~ m_info.batch_mode /\ NothingBuilt

\* axis d has exactly one periodic endpoint
Mixed(d) == (m_bc[d][1] = "periodic") # (m_bc[d][2] = "periodic")

\* C10: R2X construction aborts for every boundary tuple with an axis that
\* has exactly one periodic endpoint, before any array, copier or plan is
\* made; and the boundary assertion does not fail for a tuple in which
\* every axis is (periodic, periodic) or a pair of even/odd.
C10_R2XBoundary ==
    engine = "R2X" =>
        /\ (\E d \in 1..spacedim : Mixed(d)) => (status = "aborted" /\ NothingBuilt)
        /\ (\A d \in 1..spacedim : ~ Mixed(d)) => abortAt # "assert_bc"

C10_Witness ==
    /\ engine = "R2X" /\ status = "aborted" /\ abortAt = "assert_bc"
    /\ spacedim = 3 /\ ~ Mixed(1) /\ ~ Mixed(2) /\ Mixed(3)

\* the boundary pair of every axis of the build is valid
ValidBC == \A d \in 1..spacedim : ~ Mixed(d) /\ m_bc[d][1] \in Boundaries

\* C11: an R2X engine on a 3-D domain with N1 = 1 or N2 = 1 (N0 > 1, and
\* N1 > 1 whenever N2 > 1) and valid boundaries is constructed, and its
\* forwardThenBackward passes canonical indices of the x-phase array when
\* N1 = 1 and of the y-phase array when N1 > 1 and N2 = 1.
C11_ReducedR2X ==
    (/\ engine = "R2X" /\ spacedim = 3 /\ domain.lo = <<0,0,0>> /\ domain.cc
     /\ N0 > 1 /\ (N1 > 1 \/ N2 = 1) /\ (N1 = 1 \/ N2 = 1) /\ ValidBC) =>
        /\ status = "built"
        /\ \A k \in calls :
              /\ Phase(k.arr) = (IF N1 = 1 THEN 1 ELSE 2)
              /\ k.at = StoredAt(k.arr, k.idx)

\* the axes that are not periodic and longer than one cell
DoubledAxes == { d \in 1..3 : d <= spacedim /\ m_bc[d][1] # "periodic" /\ length(domain, d) > 1 }

\* C12: for every constructed R2X engine 1/scalingFactor() is N0*N1*N2 times
\* 2 for each non-periodic axis longer than one cell, whether its endpoints
\* are even or odd.
C12_ScalingFactor ==
    (engine = "R2X" /\ status = "built") =>
        R2X_scalingFactor(spacedim, domain, m_bc)
            = << 1, N0 * N1 * N2 * 2 ^ Cardinality(DoubledAxes) >>

C12_Witness ==
    /\ engine = "R2X" /\ status = "built" /\ spacedim = 3
    /\ m_bc = << << "periodic", "periodic" >>, << "even", "odd" >>, << "odd", "odd" >> >>
    /\ R2X_scalingFactor(spacedim, domain, m_bc) = << 1, 64 >>

\* rank r holds both plans of axis ax
HasPlans(r, ax) == plan[r]["fwd_" \o ax].defined /\ plan[r]["bwd_" \o ax].defined

\* rank r holds no plan of axis ax
LacksPlans(r, ax) == ~ plan[r]["fwd_" \o ax].defined /\ ~ plan[r]["bwd_" \o ax].defined

\* array a, the metadata pair cmds and the plans of axis ax all exist (on the
\* ranks that own a box of a) when want holds, and none of them otherwise
PhaseBuilt(a, cmds, ax, want) ==
    IF want
    THEN /\ ~ empty(mf[a])
         /\ cmds \subseteq m_cmd
         /\ \A r \in AllRanks : IF r < size(mf[a]) THEN HasPlans(r, ax) ELSE LacksPlans(r, ax)
    ELSE /\ empty(mf[a])
         /\ cmds \cap m_cmd = { }
         /\ \A r \in AllRanks : LacksPlans(r, ax)

\* the cells of the real domain in the plane z
PlaneZ(z) == { c \in Cells(domain) : c[3] = z }

\* C13: in a constructed R2C engine cy, the x<->y metadata and the y plans
\* exist iff N1 > 1, and cz, the y<->z metadata and the z plans exist iff
\* N1 > 1, N2 > 1 and batch_mode is false; a batch_mode engine executes no
\* step on cz and no Swap02 copy, and after forward the spectrum of a plane z
\* whose input is zero is zero.
C13_PhasesBuilt ==
    (engine = "R2C" /\ status = "built") =>
        /\ PhaseBuilt("cy", { "x2y", "y2x" }, "y", N1 > 1)
        /\ PhaseBuilt("cz", { "y2z", "z2y" }, "z", N1 > 1 /\ N2 > 1 /\ ~ m_info.batch_mode)
        /\ m_info.batch_mode =>
              /\ \A r \in AllRanks : \A i \in 1..Len(log[r]) :
                    /\ log[r][i][2] # "Swap02"
                    /\ "cz" \notin { log[r][i][3], log[r][i][4] }
              /\ (op = "forward" /\ Done) =>
                    \A z \in domain.lo[3]..domain.hi[3] :
                        (\A c \in PlaneZ(z) : inmf[c] = << 0, 0 >>) =>
                            \A c \in DOMAIN mf["cy"].val :
                                c[3] = z => mf["cy"].val[c] = << 0, 0 >>

C13_Witness ==
    /\ engine = "R2C" /\ m_info.batch_mode /\ op = "forward" /\ Done /\ nprocs > 1
    /\ \A c \in PlaneZ(0) : inmf[c] = << 0, 0 >>
    /\ \E c \in DOMAIN mf["cy"].val : c[3] = 1 /\ mf["cy"].val[c] # << 0, 0 >>
    /\ empty(mf["cz"]) /\ HasPlans(1, "y")

\* C14: forwardThenBackward on a batch_mode R2C engine never stops after the
\* forward transform without having called the callback or written the
\* output; when it returns, the callback has been called exactly once for
\* every cell of the spectral domain.
C14_BatchCallback ==
    (engine = "R2C" /\ m_info.batch_mode /\ op = "forwardThenBackward") =>
        /\ ~ (/\ status = "aborted"
              /\ \E r \in AllRanks : << "r2c", "forward", "rx", "cx" >> \in Range(log[r])
              /\ calls = { }
              /\ \A c \in DOMAIN outmf : outmf[c] = Junk)
        /\ Done => \A c \in SpectralCells : Cardinality(CallsAt(c)) = 1


\* the vendor handles created on rank r: the handles of its defined plans
Created(r) == { plan[r][n].handle : n \in { x \in PlanNames : plan[r][x].defined } }

\* the number of times handle h is released on rank r
Releases(r, h) == Cardinality({ i \in DOMAIN released[r] : released[r][i] = h })

\* C15: when an R2C or R2X engine is destroyed, on every rank every vendor plan
\* handle created for it is released exactly once (a handle the forward and the
\* backward plan of an axis share is released once), and nothing else is
\* released: an axis without a plan releases nothing
C15_ReleasedOnce ==
    (status = "destroyed") =>
        \A r \in AllRanks :
            /\ \A h \in Created(r) : Releases(r, h) = 1
            /\ \A i \in DOMAIN released[r] : released[r][i] \in Created(r)

\* a destroyed engine on which a rank holds an axis whose two plans share a
\* handle, an axis whose two plans differ, and an axis without plans
C15_Witness ==
    /\ status = "destroyed"
    /\ \E r \in AllRanks :
         /\ plan[r]["fwd_x"].defined
         /\ plan[r]["bwd_x"].handle = plan[r]["fwd_x"].handle
         /\ plan[r]["fwd_y"].defined
         /\ plan[r]["bwd_y"].handle # plan[r]["fwd_y"].handle
         /\ ~ plan[r]["fwd_z"].defined
         /\ Len(released[r]) = 3


\* the axes on which the constant mode is an eigenvector: periodic or (even, even)
FlatBC(d) == m_bc[d] \in { << "periodic", "periodic" >>, << "even", "even" >> }

\* the eigenvalue lambda = sum over the axes of (2/dd^2)(cos(alpha_d) - 1) is zero
\* at idx: every alpha_d is zero, i.e. idx is the origin and no axis is shifted
LambdaIsZero(idx) == \A d \in 1..spacedim : idx[d] = 0 /\ FlatBC(d)

ByLambda == [ op |-> "/=", by |-> << -1, 1 >> ]

ByScaling == [ op |-> "*=", by |-> << 1, N0 * N1 * N2 * 2 ^ Cardinality(DoubledAxes) >> ]

\* C16: in Poisson::solve no spectral cell is passed to the callback twice and,
\* once every rank has run it, every cell has been passed once; the callback
\* divides the cell by lambda when lambda # 0 and does not divide when
\* lambda = 0, and in both cases then multiplies it by the scaling factor once.
C16_PoissonCallback ==
    (engine = "R2X" /\ InFTB) =>
        /\ \A k \in calls :
              k.did = IF LambdaIsZero(k.idx) THEN << ByScaling >> ELSE << ByLambda, ByScaling >>
        /\ \A c \in SpectralCells : Cardinality(CallsAt(c)) <= 1
        /\ (\A r \in AllRanks : PostEntry \in Range(log[r])) =>
              \A c \in SpectralCells : Cardinality(CallsAt(c)) = 1

\* a finished solve with an even-even axis: the origin was scaled only, another
\* cell with a zero first index was divided and scaled
C16_Witness ==
    /\ engine = "R2X" /\ Done /\ spacedim = 2
    /\ m_bc[1] = << "even", "even" >> /\ m_bc[2] = << "periodic", "periodic" >>
    /\ \E k \in calls : k.idx = << 0, 0, 0 >> /\ k.did = << ByScaling >>
    /\ \E k \in calls : k.idx = << 0, 1, 0 >> /\ k.did = << ByLambda, ByScaling >>


\* C17: a PoissonHybrid solver whose geometry has a zero cell size along z is
\* rejected at construction.
C17_ZeroDeltaZ ==
    (engine = "PoissonHybrid" /\ m_geom.CellSize[3] = 0) => status = "aborted"


\* the steps rank r has executed in the running traversal, the callback aside
Steps(r) == SelectSeq(log[r], LAMBDA e : e # PostEntry)

\* the cells of array a that rank r stores; the caller's arrays are taken whole
Local(a, r) ==
    IF a \in ArrNames
    THEN IF r < size(mf[a]) THEN Cells(mf[a].ba[r + 1]) ELSE { }
    ELSE DOMAIN outmf

\* the content of cell c of array a
Held(a, c) == IF a \in ArrNames THEN mf[a].val[c] ELSE outmf[c]

\* the running traversal starts from defined data: forward and
\* forwardThenBackward from the caller's array, backward from the spectral data
\* the preceding forward left in the engine
FromDefinedData ==
    \/ op \in { "forward", "forwardThenBackward", "R2X_forwardThenBackward" }
    \/ /\ op = "backward" /\ Len(hist) >= 2
       /\ hist[Len(hist) - 1] \in { "forward", "forward_out" }

\* every out-of-place step executed so far had its source and its destination
\* in different buffers, and the array each rank wrote last holds, in the cells
\* of that rank, values and no storage lost to an alias partner
NoHazard ==
    \A r \in AllRanks :
        /\ \A i \in DOMAIN Steps(r) :
              Steps(r)[i][3] # Steps(r)[i][4] =>
                  { Steps(r)[i][3], Steps(r)[i][4] } \notin share
        /\ Steps(r) # << >> =>
              \A c \in Local(Steps(r)[Len(Steps(r))][4], r) :
                  Held(Steps(r)[Len(Steps(r))][4], c) # Junk

\* C18: in a traversal of an R2C engine (forward, backward after a forward, or
\* forwardThenBackward) no step reads a value that a write to the alias partner
\* (rx with cy, cx with cz) has overwritten, and every out-of-place step has
\* its source and its destination in different buffers.
C18_R2CAliasing ==
    (engine = "R2C" /\ Running /\ FromDefinedData) =>
        /\ share = { { "rx", "cy" }, { "cx", "cz" } }
        /\ NoHazard

\* a finished backward after a forward on a 3-D non-batch engine on several
\* ranks: both partners cy and cz were overwritten on the way, the result is whole
C18_Witness ==
    /\ engine = "R2C" /\ op = "backward" /\ Done /\ FromDefinedData
    /\ nprocs > 1 /\ ~ empty(mf["cz"])
    /\ \E c \in DOMAIN mf["cz"].val : mf["cz"].val[c] = Junk
    /\ \E c \in DOMAIN mf["cy"].val : mf["cy"].val[c] = Junk
    /\ \A c \in DOMAIN outmf : outmf[c] # Junk


\* axis d of the engine is periodic
Periodic(d) == d <= spacedim /\ m_bc[d][1] = "periodic"

\* C19: an R2X engine built for a valid boundary tuple shares storage between
\* (rx, cy) and (cx, cz) when x is periodic, between (rx, cy) and (ry, cz) when
\* x is not periodic and y is, and between (rx, rz) and (ry, cz) when neither
\* is; throughout forwardThenBackward no step reads a value that a write to
\* the alias partner has overwritten, and no out-of-place step has its source
\* and its destination in one buffer.
C19_R2XAliasing ==
    (engine = "R2X" /\ status = "built") =>
        /\ share = IF Periodic(1) THEN { { "rx", "cy" }, { "cx", "cz" } }
                   ELSE IF Periodic(2) THEN { { "rx", "cy" }, { "ry", "cz" } }
                   ELSE { { "rx", "rz" }, { "ry", "cz" } }
        /\ Running => NoHazard

\* a finished forwardThenBackward on several ranks of a 3-D engine whose x axis
\* is not periodic and whose y axis is: rx and cy, ry and cz were written in
\* turn and the result is whole
C19_Witness ==
    /\ engine = "R2X" /\ Done /\ spacedim = 3 /\ nprocs > 1
    /\ ~ Periodic(1) /\ Periodic(2)
    /\ share = { { "rx", "cy" }, { "ry", "cz" } }
    /\ \E c \in DOMAIN mf["cy"].val : mf["cy"].val[c] = Junk
    /\ \E c \in DOMAIN mf["cz"].val : mf["cz"].val[c] = Junk
    /\ \A c \in DOMAIN outmf : outmf[c] # Junk


\* the axis a plan belongs to
AxisOf(n) == CASE n \in { "fwd_x", "bwd_x" } -> 1
               [] n \in { "fwd_y", "bwd_y" } -> 2
               [] n \in { "fwd_z", "bwd_z" } -> 3

\* the kernel of each axis of a 3-D engine, by its boundary tuple
AxisKernel(d) ==
    CASE d = 1 -> IF Periodic(1) THEN "r2c" ELSE "r2r"
      [] d = 2 -> IF ~ Periodic(2) THEN "r2r" ELSE IF Periodic(1) THEN "c2c" ELSE "r2c"
      [] d = 3 -> IF ~ Periodic(3) THEN "r2r"
                  ELSE IF Periodic(1) \/ Periodic(2) THEN "c2c" ELSE "r2c"

\* the array the last step of rank r left the data in
HeldIn(r) == Steps(r)[Len(Steps(r))][4]

\* C20: in a 3-D R2X engine built for a valid boundary tuple x runs r2c when
\* BC0 is periodic and r2r otherwise, y runs r2r when BC1 is not periodic, else
\* c2c when BC0 is periodic, else r2c, and z runs r2r when BC2 is not periodic,
\* else c2c when BC0 or BC1 is periodic, else r2c.  Every plan was initialised
\* with the kernel of its axis; each compute of forwardThenBackward invokes the
\* kernel and direction of its plan, whose source array is the one holding the
\* data; and every step (a redistribution too) reads the array the step before
\* it wrote.
C20_KernelDispatch ==
    (engine = "R2X" /\ status = "built" /\ spacedim = 3) =>
        /\ \A r \in AllRanks : \A n \in PlanNames :
              plan[r][n].defined => plan[r][n].kind = AxisKernel(AxisOf(n))
        /\ \A r \in AllRanks :
              At(r, "compute") =>
                  /\ Prog[pc[r]].kernel = AxisKernel(AxisOf(Prog[pc[r]].plan))
                  /\ plan[r][Prog[pc[r]].plan].defined =>
                        /\ plan[r][Prog[pc[r]].plan].kind = Prog[pc[r]].kernel
                        /\ plan[r][Prog[pc[r]].plan].dir = Prog[pc[r]].dir
                        /\ plan[r][Prog[pc[r]].plan].src = HeldIn(r)
        /\ Running =>
              \A i \in 2..Len(Steps(0)) : Steps(0)[i][3] = Steps(0)[i - 1][4]

\* a finished forwardThenBackward with x even, y and z periodic: r2r in rx, the
\* real array moved to ry, r2c into cy, the complex array moved to cz, c2c, and
\* back
C20_Witness ==
    /\ engine = "R2X" /\ Done /\ spacedim = 3
    /\ ~ Periodic(1) /\ Periodic(2) /\ Periodic(3)
    /\ Steps(0) = << << "copy", "Identity", "in", "rx" >>,
                     << "r2r", "forward", "rx", "rx" >>,
                     << "copy", "Swap01", "rx", "ry" >>,
                     << "r2c", "forward", "ry", "cy" >>,
                     << "copy", "Swap02", "cy", "cz" >>,
                     << "c2c", "forward", "cz", "cz" >>,
                     << "c2c", "backward", "cz", "cz" >>,
                     << "copy", "Swap02", "cz", "cy" >>,
                     << "r2c", "backward", "cy", "ry" >>,
                     << "copy", "Swap01", "ry", "rx" >>,
                     << "r2r", "backward", "rx", "rx" >>,
                     << "copy", "Identity", "rx", "out" >> >>


\* contents that tell the cells of a set apart: every cell holds its own index
Tagged(cs) == [ c \in cs |-> c ]

\* unwritten storage over the cells cs
Blank(cs) == [ c \in cs |-> Junk ]

\* copying contents v of the cells sc to the cells dc (index transform fwd,
\* destination mask fm) and back (transform bwd, mask bm) restores v
Restores(v, sc, dc, fwd, fm, bwd, bm) ==
    ParallelCopy(Blank(sc), ParallelCopy(Blank(dc), v, Cells(fm), fwd), Cells(bm), bwd) = v

\* the copy to the boxes dba from the boxes sba writes every destination cell
\* once and takes every source cell to exactly one destination cell
OneToOne(dba, sba, dtos, mask) ==
    /\ \A c \in CellsOfBA(dba) :
          CopyHits(dba, sba, dtos, c) = IF c \in Cells(mask) THEN 1 ELSE 0
    /\ \A s \in CellsOfBA(sba) :
          Cardinality({ c \in CellsOfBA(dba) \cap Cells(mask) : Dtos(dtos, c) = s }) = 1

\* the statement f of the forward direction and the statement b of the backward
\* direction are redistributions between the same two arrays that undo each
\* other, when the engine has their copiers
Inverse(f, b) ==
    (f.cmd \in m_cmd \/ b.cmd \in m_cmd) =>
        /\ f.cmd \in m_cmd /\ b.cmd \in m_cmd
        /\ f.src = b.dst /\ f.dst = b.src
        /\ Restores(Tagged(DOMAIN mf[f.src].val), DOMAIN mf[f.src].val,
                    DOMAIN mf[f.dst].val, f.dtos, f.mask, b.dtos, b.mask)
        /\ OneToOne(mf[f.dst].ba, mf[f.src].ba, f.dtos, f.mask)
        /\ OneToOne(mf[b.dst].ba, mf[b.src].ba, b.dtos, b.mask)

\* the export e of forward(in, out) and the import i of backward(in, out) move
\* the same internal array to the caller's array and back unchanged
InverseIO(e, i) ==
    /\ e[1] = i[1]
    /\ Restores(Tagged(DOMAIN mf[e[1]].val), DOMAIN mf[e[1]].val,
                Cells(m_spectral_domain_x(domain)), e[2], e[3], i[2], i[3])
    /\ OneToOne(SpectralBA(domain), mf[e[1]].ba, e[2], e[3])
    /\ OneToOne(mf[i[1]].ba, SpectralBA(domain), i[2], i[3])

\* C21: in every R2C engine the redistribution cy -> cx undoes cx -> cy and
\* cz -> cy undoes cy -> cz for any contents, the import of backward(in, out)
\* undoes the export of forward(in, out) on the innermost array, and each of
\* these copies takes every source cell to exactly one destination cell and
\* writes no destination cell twice. The layouts and copiers are fixed by the
\* constructor, so the engine is examined between and at the end of its
\* operations.
C21_InverseCopies ==
    (engine = "R2C" /\ status = "built" /\ (op = "idle" \/ Done)) =>
        /\ Inverse(forward(domain)[3], backward_doit(domain)[4])
        /\ Inverse(forward(domain)[5], backward_doit(domain)[2])
        /\ InverseIO(forward_export(domain, mf), backward_import(domain, mf))

\* a 3-D engine on several ranks that has exported with forward(in, out) and
\* then imported and gone back with backward(in, out)
C21_Witness ==
    /\ engine = "R2C" /\ Full3D /\ nprocs > 1
    /\ hist = << "forward_out", "backward_in" >> /\ Done
    /\ m_cmd = { "x2y", "y2x", "y2z", "z2y" }
    /\ forward_export(domain, mf)[2] = "RotateBwd"


TridiagEntry == << "tridiag", "", "", "" >>

InSolve == engine = "PoissonHybrid" /\ Running /\ op = "solve"

\* the columns of the spectral domain
AllColumns == (0..(N0 \div 2)) \X (0..(N1 - 1))

\* the cells of column ij
ColumnCells(ij) == { << ij[1], ij[2], k >> : k \in 0..(N2 - 1) }

\* the records of the tridiagonal solves of column ij
SolvesOf(ij) == { k \in calls : k.col = ij }

\* entry e of a log belongs to forward(rhs, spmf): a forward transform, a copy
\* towards the innermost array, or the export to spmf
OfForward(e) ==
    \/ e[2] = "forward"
    \/ e[1] = "copy" /\ e[3] = "in" /\ e[4] = "rx"
    \/ e[1] = "copy" /\ e[3] \in ArrNames /\ e[4] \in ArrNames /\ Phase(e[4]) > Phase(e[3])
    \/ e[1] = "copy" /\ e[3] \in ArrNames /\ e[3] # "rx" /\ e[4] = "out"

\* C22: in PoissonHybrid::solve spmf covers [0,N0/2] x [0,N1-1] x [0,N2-1] in
\* boxes that each span the whole z extent, so every column (i,j) lies wholly
\* in exactly one box; no column is solved or scaled twice, a solve covers and
\* scales by 1/(N0*N1) the whole column, and once every rank has run its loop
\* every column was solved once; on every rank the loop runs after all of
\* forward(rhs, spmf), on exported data, and before any step of
\* backward(spmf, soln).
C22_ColumnsOnce ==
    InSolve =>
        /\ DOMAIN spmf.val = { c \in (0..(N0 \div 2)) \X (0..(N1 - 1)) \X (0..(N2 - 1)) : TRUE }
        /\ \A n \in DOMAIN PoissonHybrid_cba(domain, nprocs) :
              /\ PoissonHybrid_cba(domain, nprocs)[n].lo[3] = 0
              /\ PoissonHybrid_cba(domain, nprocs)[n].hi[3] = N2 - 1
        /\ \A ij \in AllColumns :
              /\ Cardinality({ n \in DOMAIN PoissonHybrid_cba(domain, nprocs) :
                                 ColumnCells(ij) \subseteq Cells(PoissonHybrid_cba(domain, nprocs)[n]) }) = 1
              /\ Cardinality(SolvesOf(ij)) <= 1
              /\ (\A r \in AllRanks : TridiagEntry \in Range(log[r])) =>
                    Cardinality(SolvesOf(ij)) = 1
        /\ \A k \in calls :
              /\ k.col \in AllColumns
              /\ k.solved = ColumnCells(k.col) /\ k.scaled = ColumnCells(k.col)
              /\ k.scale = << 1, N0 * N1 >>
              /\ ColumnCells(k.col) \subseteq Cells(PoissonHybrid_cba(domain, nprocs)[k.box])
              /\ \A c \in ColumnCells(k.col) : spmf.val[c] # Junk
        /\ \A r \in AllRanks : \A t \in DOMAIN log[r] :
              log[r][t] = TridiagEntry =>
                  /\ \A u \in 1..(t - 1) : OfForward(log[r][u])
                  /\ Len(SelectSeq(SubSeq(log[r], 1, t - 1), LAMBDA e : e[4] = "out")) = 1
                  /\ \A u \in (t + 1)..Len(log[r]) :
                        ~ OfForward(log[r][u]) /\ log[r][u] # TridiagEntry

\* a finished solve on several ranks of a domain of three cells along z: six
\* columns, solved by two ranks
C22_Witness ==
    /\ InSolve /\ Done /\ nprocs > 1 /\ N2 = 3
    /\ Cardinality(calls) = 6
    /\ \E k \in calls : k.rank = 0
    /\ \E k \in calls : k.rank = 1
    /\ \A c \in DOMAIN outmf : outmf[c] = Opaque


\* the wave numbers of lambda_xy of column ij: i along x, and along y the
\* distance of j to the nearest multiple of N1
LambdaXY(ij) == << ij[1], IF ij[2] < N1 \div 2 THEN ij[2] ELSE N1 - ij[2] >>

\* C23: for every column solved by PoissonHybrid::solve the lower coefficient
\* is 0 on row 0, the upper coefficient is 0 on row N2-1, every b is computed
\* as lambda_xy - a - c from the row's own a and c, the result is doubled on
\* row N2-1 of column (0,0) and on no other row, and the GPU and the CPU code
\* build the same rows for every column.
C23_TridiagonalRows ==
    InSolve =>
        /\ \A k \in calls :
              /\ DOMAIN k.rows = 0..(N2 - 1)
              /\ k.rows[0].a = << 0, 1 >>
              /\ k.rows[N2 - 1].c = << 0, 1 >>
              /\ \A z \in DOMAIN k.rows :
                    /\ k.rows[z].b.k2 = LambdaXY(k.col)
                    /\ k.rows[z].b.minus = << k.rows[z].a, k.rows[z].c >>
                    /\ k.rows[z].b.times = IF k.col = << 0, 0 >> /\ z = N2 - 1 THEN 2 ELSE 1
                    /\ z > 0 => k.rows[z].a[1] = 2
                    /\ z < N2 - 1 => k.rows[z].c[1] = 2
        /\ \A ij \in AllColumns :
              PoissonHybrid_rows_gpu(ij[1], ij[2], N1, N2, PoissonHybrid_delz(domain, m_geom))
                = PoissonHybrid_rows_cpu(ij[1], ij[2], N1, N2, PoissonHybrid_delz(domain, m_geom))

\* a finished solve of a host build on several ranks with an interior row:
\* column (0,0) was solved with its last row doubled, another column was not
C23_Witness ==
    /\ InSolve /\ Done /\ build = "cpu" /\ nprocs > 1 /\ N2 = 3
    /\ \E k \in calls : k.col = << 0, 0 >> /\ k.rows[2].b.times = 2 /\ k.rows[1].b.times = 1
    /\ \E k \in calls : k.col # << 0, 0 >> /\ k.rows[2].b.times = 1
                        /\ k.col[2] >= N1 \div 2

\* C27: a PoissonHybrid solver is only built on a domain with N2 > 1, the
\* table of cell sizes along z has N2 entries, and every index solve reads
\* from it lies in 0..N2-1: row 0 reads 0 and 1, row N2-1 reads N2-1 and N2-2,
\* an interior row k reads k-1, k and k+1.
C27_DelzInRange ==
    (engine = "PoissonHybrid" /\ status = "built") =>
        /\ N2 > 1
        /\ Len(PoissonHybrid_delz(domain, m_geom)) = N2
        /\ op = "solve" =>
              \A k \in calls : \A z \in DOMAIN k.rows :
                  /\ k.rows[z].reads \subseteq 0..(N2 - 1)
                  /\ k.rows[z].reads = { z - 1, z, z + 1 } \cap (0..(N2 - 1))
                  /\ z = 0 => k.rows[z].reads = { 0, 1 }
                  /\ z = N2 - 1 => k.rows[z].reads = { N2 - 1, N2 - 2 }
                  /\ k.rows[z].a # Junk /\ k.rows[z].c # Junk

\* a finished solve of an accelerator build with a first, an interior and a
\* last row
C27_Witness ==
    /\ InSolve /\ Done /\ build = "gpu" /\ N2 = 3
    /\ \E k \in calls : /\ k.rows[0].reads = { 0, 1 }
                        /\ k.rows[1].reads = { 0, 1, 2 }
                        /\ k.rows[2].reads = { 1, 2 }


\* the working array whose local box the plan p is created on: the real array
\* of a real-to-complex plan, the array transformed in place otherwise
PlanArray(p) == IF p.kind = "r2c" /\ p.dir = "backward" THEN p.dst ELSE p.src

\* the transforms rank r has executed
Transforms(r) ==
    SelectSeq(log[r], LAMBDA e : e[1] \notin { "copy", "post_forward", "tridiag" })

\* the compute statements of the running operation whose phase exists and has
\* a box for rank r
OwnedComputes(r) ==
    { t \in DOMAIN Prog : /\ Prog[t].t = "compute"
                          /\ plan[0][Prog[t].plan].defined
                          /\ r < size(mf[PlanArray(plan[0][Prog[t].plan])]) }

\* C24: every working array of a built engine has at most nprocs boxes and the
\* rank map of box i is rank i, reused maps included; a plan exists on rank r
\* exactly when r is below the box count of the array of its phase, it is
\* bound to box r of that array, and every array has such a phase (arrays and
\* plans are fixed by the constructor and examined between and at the end of
\* the operations); a rank executes a transform only on arrays it has a box
\* of, and when an operation is finished rank r has executed exactly the
\* transforms of the phases it has a box of.
C24_IotaPlacement ==
    status = "built" =>
        /\ (op = "idle" \/ Done) =>
              /\ \A a \in ArrNames :
                    /\ size(mf[a]) <= nprocs
                    /\ Len(mf[a].dm) = size(mf[a])
                    /\ \A i \in 1..size(mf[a]) : mf[a].dm[i] = i - 1
                    /\ ~ empty(mf[a]) =>
                          \E n \in PlanNames : /\ plan[0][n].defined
                                               /\ a \in { plan[0][n].src, plan[0][n].dst }
              /\ \A n \in PlanNames : \A r \in AllRanks :
                    /\ plan[r][n].defined =>
                          /\ r < size(mf[plan[r][n].src]) /\ r < size(mf[plan[r][n].dst])
                          /\ plan[r][n].box = mf[PlanArray(plan[r][n])].ba[r + 1]
                          /\ plan[0][n].defined
                          /\ PlanArray(plan[0][n]) = PlanArray(plan[r][n])
                    /\ (plan[0][n].defined /\ r < size(mf[PlanArray(plan[0][n])])) =>
                          plan[r][n].defined
        /\ \A r \in AllRanks :
              /\ \A t \in DOMAIN log[r] :
                    log[r][t][1] \notin { "copy", "post_forward", "tridiag" } =>
                        /\ r < size(mf[log[r][t][3]])
                        /\ r < size(mf[log[r][t][4]])
              /\ (Running /\ Done) => Len(Transforms(r)) = Cardinality(OwnedComputes(r))

\* two ranks after a finished operation of a 3D R2C engine: m_cy has two boxes
\* and reuses the rank map of m_rx, m_cz that of m_rx too, and rank 1 has and
\* has executed the plans of all three phases, each bound to its box
C24_Witness ==
    /\ status = "built" /\ engine = "R2C" /\ nprocs = 2 /\ Running /\ Done
    /\ size(mf["rx"]) = 2 /\ size(mf["cy"]) = 2 /\ size(mf["cz"]) = 2
    /\ mf["cy"].dm = << 0, 1 >> /\ mf["cz"].dm = << 0, 1 >>
    /\ \A n \in PlanNames : /\ plan[1][n].defined
                             /\ plan[1][n].box = mf[PlanArray(plan[1][n])].ba[2]
    /\ Len(Transforms(1)) = Len(Transforms(0)) /\ Len(Transforms(1)) >= 3

\* two ranks after a finished operation on a domain that cannot be split:
\* rank 1 owns no box, has no plan and has executed no transform, rank 0 has
C24_NoBox ==
    /\ status = "built" /\ nprocs = 2 /\ Running /\ Done
    /\ \A n \in PlanNames : ~ plan[1][n].defined
    /\ \E n \in PlanNames : plan[0][n].defined
    /\ Len(Transforms(1)) = 0 /\ Len(Transforms(0)) > 0

\* the statements that are collective over the communicator
Collectives == { "copy_in", "copy", "export", "import", "copy_out" }

\* the collective copies rank r has issued
Copies(r) == SelectSeq(log[r], LAMBDA e : e[1] = "copy")

\* the copiers of the engine as its constructor makes them on a single rank
\* from the same domain, batch_mode and boundary tuple
ShapeCopiers ==
    IF engine = "R2X"
    THEN R2X_copiers(spacedim, domain, R2X_containers(spacedim, domain, m_bc, 1))
    ELSE R2C_copiers(spacedim, R2C_containers(spacedim, domain, m_info, 1))

\* the copies of the running operation that the domain shape, batch_mode and
\* the boundary tuple alone say are executed
ShapeCopies ==
    SelectSeq(Prog, LAMBDA s : \/ s.t \in { "copy_in", "export", "import", "copy_out" }
                               \/ s.t = "copy" /\ s.cmd \in ShapeCopiers)

HipOrder ==
    << "rocfft_execution_info_create", "rocfft_plan_get_work_buffer_size", "alloc",
       "rocfft_execution_info_set_work_buffer", "rocfft_execution_info_set_stream",
       "rocfft_execute", "streamSynchronize", "free", "rocfft_execution_info_destroy" >>

\* C25: the calls an invocation of hip_execute has completed are always the
\* first ones of: create the execution info, query the work-buffer size,
\* allocate the buffer from the arena, bind the buffer, bind the stream,
\* execute, synchronise the stream, free the buffer, destroy the execution
\* info; the buffer has the size the plan reported, the transform runs with
\* the buffer and the stream bound, a buffer a queued kernel works in is never
\* freed, and when hip_execute has returned, any number of times, no work
\* buffer and no execution info exists.
C25_HipExecution ==
    /\ Len(hip_trace) <= Len(HipOrder)
    /\ hip_trace = SubSeq(HipOrder, 1, Len(hip_trace))
    /\ hip_pc # 0 => Len(hip_trace) = hip_pc - 1
    /\ \A i \in DOMAIN stream : stream[i] # 0 => stream[i] \in DOMAIN arena
    /\ \A b \in DOMAIN arena : b = buffer /\ arena[b] = buffersize
    /\ \A e \in DOMAIN infos : e = execinfo
    /\ ("rocfft_execute" \in Range(hip_trace) /\ execinfo \in DOMAIN infos) =>
          /\ infos[execinfo].buffer = buffer /\ buffer # 0
          /\ infos[execinfo].stream
    /\ ("free" \in Range(hip_trace)) =>
          /\ "streamSynchronize" \in Range(hip_trace)
          /\ buffer \notin DOMAIN arena
    /\ (hip_pc = 0 /\ hip_abort = "") =>
          /\ DOMAIN arena = { } /\ DOMAIN infos = { }
          /\ hip_done > 0 => hip_trace = HipOrder

\* hip_execute has returned twice, the second time after waiting for an
\* earlier kernel and its own transform on the stream
C25_Witness ==
    /\ hip_done = 2 /\ hip_pc = 0 /\ hip_abort = ""
    /\ hip_trace = HipOrder /\ buffer = 2 /\ execinfo = 2 /\ buffersize > 0
    /\ stream = << >>

\* the transform of an invocation is in flight on the stream in its work buffer
C25_InFlight ==
    /\ hip_pc = 7 /\ stream # << >> /\ stream[Len(stream)] = buffer /\ buffer \in DOMAIN arena

====
